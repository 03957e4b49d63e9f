\* An upload next to an image of the same rank.
SPECIFICATION Spec
CONSTANTS
  Artist = {"", "A"}
  Album = {"", "X"}
  Date = {""}
  TrackDir <- Dirs
  ImageDir <- Parents
  ImageStem = {"cover", "folder"}
  Extension = {"jpg", "png"}
  Shape <- Upload
  MaxItems <- Items
INVARIANTS
  UploadedIsCover
