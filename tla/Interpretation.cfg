\* Two concurrent commands: polls, articles, interpretations, reviews, notes.
CONSTANTS
  s1 = s1
  s2 = s2
  NONE = NONE
  Sessions = {s1, s2}
  MaxCommands = 2
  Sources = {"livemint", "economic_times"}
  Headlines <- Stories
  Similarity <- Likeness
  Figures <- Numbers
  Mentions <- Named
  Aliases <- KnownAliases
  Feeds <- Polled
  Articles <- Typed
  Window = 3
  RecentLimit = 2
  Now = 6
  Says <- Phrases
  Proposals <- Suggested
  Past <- Start0
SPECIFICATION Spec
INVARIANTS OneStoryPerSource EventsAreSupported OnlyReviewedFacts
PROPERTY DecisionsStand
CHECK_DEADLOCK FALSE
