SPECIFICATION EitherSpec
CONSTANTS
  Rhythms = {r1, r2}
  Previews = {v1}
  Posts = {a1}
  MaxEvents = 1
  Drawings = {d1, d2}
  Typings = {t1}
  Polls = {g1}
  Embeds = {e1}
  Opened = {d2}
  MaxAsked = 2
INVARIANT OneSoundingUnlessCrossed
INVARIANT HeardOrQuiet
INVARIANT OnceMoreAtMost
PROPERTY SilentOnceLeft
