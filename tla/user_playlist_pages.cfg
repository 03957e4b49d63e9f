\* More playlists than a reply has room for, and a limit above it.
SPECIFICATION Spec
CONSTANTS
  Track = {1}
  Name = {n1}
  LimitMax = 3
  PlaylistPage = 2
  TrackPage = 4
  MaxPlaylists = 3
  MaxRows = 1
  MaxTime = 1
INVARIANT
  PagesShowPlaylists
