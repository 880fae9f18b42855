SPECIFICATION EitherSpec
CONSTANTS
  Posts = {p}
  Pulls = {"loop", "sync"}
  NoPost = NoPost
  Dates = {0}
  Deleters = {d1}
  MaxTime = 4
  Attachments = {f1, f2}
  Slots = {s1, s2}
  NoCall = NoCall
  MaxTexts = 2
INVARIANT TakenInWhole
INVARIANT ListedUnlessCrossed
INVARIANT ShownUnlessLate
INVARIANT PreviewUnlessOvertaken
 
SYMMETRY EditorSymmetry
CONSTRAINT OneCallWhileTyping
CHECK_DEADLOCK FALSE
