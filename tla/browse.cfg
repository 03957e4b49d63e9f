\* Every arrangement of three tracks, and of two tracks and two images, with
\* patches and uploads.
SPECIFICATION Spec
CONSTANTS
  Artist = {"", "A"}
  Album = {"", "X", "Y"}
  Date = {"", "1990"}
  TrackDir <- Dirs
  ImageDir <- Parents
  ImageStem = {"cover", "folder"}
  Extension = {"jpg", "png"}
  Shape <- Tracks
  MaxItems <- Items
CONSTRAINT Instance
INVARIANTS
  TracksCounted
  DatesShared
  CoverDirsAgree
  CoverIsBest
