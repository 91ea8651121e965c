----------------------------- MODULE MCFilings ------------------------------
(* Instances of Filings for TLC.                                           *)
EXTENDS Filings

CONSTANTS s1, s2

File(t, m, o) == [type |-> t, members |-> m, opens |-> o]
Files ==
    ("deck" :> File("pdf", <<>>, "yes")) @@ ("scan" :> File("pdf", <<>>, "no")) @@
    ("letter" :> File("html", <<>>, "yes")) @@ ("image" :> File("other", <<>>, "yes")) @@
    ("bundle" :> File("zip", <<"deck", "letter">>, "yes")) @@
    ("bomb" :> File("zip", <<"deck">>, "no")) @@
    ("locked" :> File("zip", <<"deck">>, "raises"))

Told(u, f, at) == [url |-> u, filing |-> f, published |-> at]
Lists ==
    [n \in {"BEL", "HAL"} |->
        {<<Told("u1", "investor_presentation", 2), Told("u2", "quarterly_result", 1),
           Told("u3", "announcement", 2)>>,
         <<Told("u2", "quarterly_result", NONE), Told(NONE, "quarterly_result", 2),
           Told("u1", "investor_presentation", 2)>>}]
Answers ==
    [url : {"u1"}, bytes : {"deck", "bundle"}] \cup
    [url : {"u2"}, bytes : {"bundle", "bomb", "locked", "scan", "image"}]

Upload(n, u, b) == [symbol |-> n, url |-> u, bytes |-> b, filing |-> "other"]
Given == {Upload("BEL", "u1", "bundle"), Upload("HAL", "file", "deck")}

Sync(n, t, at) == [symbol |-> n, types |-> t, since |-> at]
Asked == {Sync("BEL", _AUTO_ARCHIVE_TYPES, NONE), Sync("BEL", {"quarterly_result"}, 1)}
=============================================================================
