\* Playlists, favourites and a history, paged, with transactions,
\* failures and deaths, and with entries the catalogue no longer has.
SPECIFICATION Spec
CONSTANTS
  Track = {1, 2}
  Name = {n1}
  LimitMax = 2
  PlaylistPage = 2
  TrackPage = 2
  MaxPlaylists = 2
  MaxRows = 2
  MaxTime = 2
INVARIANTS
  UserInv
  RowsInOrder
  RecordedWasServed
  PagesShowTracks
PROPERTIES
  TracksReplyTrue
  ImplementsUserData
