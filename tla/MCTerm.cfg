\* Programs that scroll by the arrow keys and by up to a screen and more.
CONSTANTS
  Heights = {3, 4, 5, 6, 7}
  Scrollbacks = {6, 8, 11}
  Scrolls = {1, 5}
SPECIFICATION Spec
INVARIANTS
  FrameKept
  OffByAtMostOne
PROPERTIES
  DownIsFaithful
  PageIsFaithful
