------------------------------- MODULE Browse -------------------------------
(***************************************************************************)
(* The browse index (src/src/library/browse.c), which groups the tracks of *)
(* a catalogue into artists and albums and finds each album a cover, and   *)
(* what depends on the grouping: patching an album and putting its cover   *)
(* (src/src/library/runtime.c).                                            *)
(*                                                                         *)
(* The catalogue is a sequence here: ids of artists and albums are         *)
(* positions in order of discovery.  A path is its directory, a sequence   *)
(* of segments, with the stem and the extension of its name.  Release      *)
(* dates and genres are treated alike: there is one such field, date.      *)
(*                                                                         *)
(* An operator whose name ends in an underscore and a word is a faulty     *)
(* variant of the operator that follows it, for mutation checks only.      *)
(***************************************************************************)
EXTENDS Naturals, Sequences, FiniteSets, SequencesExt, FiniteSetsExt

CONSTANTS Artist, Album, Date,   \* what tags hold, "" for a missing one
          TrackDir, ImageDir,    \* directories of the tracks and the images
          ImageStem,             \* stems of the names of images, like "cover"
          Extension,             \* of the covers that are uploaded
          Shape,                 \* bound: how many tracks and images a scan finds
          MaxItems               \* bound: how far uploads make a catalogue of so
                                 \* many tracks grow

None == ""   \* for a missing tag

ASSUME CountAssumption ==
  /\ Shape \subseteq Nat \X Nat
  /\ \A shape \in Shape : MaxItems[shape[1]] \in Nat
ASSUME TagAssumption == None \in Artist \cap Album
ASSUME TextAssumption ==
  /\ Artist \cup Album \cup Date \subseteq STRING
  /\ TrackDir \cup ImageDir \subseteq Seq(STRING)

VARIABLES
  catalog,   \* ctx->catalog: its items, in order
  index,     \* ctx->browse
  reply      \* what the last upload was told

vars == <<catalog, index, reply>>

IsAudio(item) == item.kind = "audio"
IsImage(item) == item.kind = "image"

ItemWithId(id) == CHOOSE item \in Range(catalog) : item.id = id

(* media_path_meta: artist and album by the first two segments.            *)
PathGroup(dir) ==
  <<IF Len(dir) >= 1 THEN dir[1] ELSE None, IF Len(dir) >= 2 THEN dir[2] ELSE None>>

CommonDir_First(d, e) == d
CommonDir(d, e) == LongestCommonPrefix({d, e})

-----------------------------------------------------------------------------
(***************************************************************************)
(* browse_index_build: one pass over the tracks.                           *)
(***************************************************************************)

EmptyIndex == [artists |-> <<>>, albums |-> <<>>, album |-> <<>>]

ArtistAt(idx, name) == SelectInSeq(idx.artists, LAMBDA a : a.name = name)
AlbumAt_ByName(idx, artist, name) == SelectInSeq(idx.albums, LAMBDA a : a.name = name)
AlbumAt(idx, artist, name) ==
  SelectInSeq(idx.albums, LAMBDA a : a.artist = artist /\ a.name = name)

WithArtist_FirstUncounted(idx, item) ==
  LET i == ArtistAt(idx, item.artist) IN
  IF item.artist = None THEN idx
  ELSE IF i = 0 THEN [idx EXCEPT !.artists =
                        Append(@, [name |-> item.artist, tracks |-> 0, albums |-> 0])]
  ELSE [idx EXCEPT !.artists[i].tracks = @ + 1]

WithArtist(idx, item) ==
  LET i == ArtistAt(idx, item.artist) IN
  IF item.artist = None THEN idx
  ELSE IF i = 0 THEN [idx EXCEPT !.artists =
                        Append(@, [name |-> item.artist, tracks |-> 1, albums |-> 0])]
  ELSE [idx EXCEPT !.artists[i].tracks = @ + 1]

NewAlbum(idx, item) ==
  [artist |-> item.artist, name |-> item.album,
   artistId |-> ArtistAt(idx, item.artist), tracks |-> 0, cover |-> 0,
   date |-> item.date, dateMixed |-> FALSE,
   group |-> PathGroup(item.dir), groupMixed |-> FALSE, dir |-> <<>>]

(* update_album_cover_dir.                                                 *)
CoverDirWith(album, item) ==
  IF album.tracks = 0 THEN item.dir
  ELSE IF album.dir = <<>> THEN <<>>
  ELSE CommonDir(album.dir, item.dir)

DateMixedWith_Never(album, item) == FALSE
DateMixedWith(album, item) == album.dateMixed \/ album.date # item.date

WithTrack(album, item) ==
  [album EXCEPT
     !.tracks = @ + 1,
     !.dateMixed = DateMixedWith(album, item),
     !.date = IF DateMixedWith(album, item) THEN None ELSE item.date,
     !.groupMixed = @ \/ album.group # PathGroup(item.dir),
     !.dir = CoverDirWith(album, item)]

WithOneMore(artists, i) ==
  [j \in DOMAIN artists |->
     IF j = i THEN [artists[j] EXCEPT !.albums = @ + 1] ELSE artists[j]]

WithNewAlbum(idx, item) ==
  LET album == NewAlbum(idx, item) IN
  [artists |-> WithOneMore(idx.artists, album.artistId),
   albums |-> Append(idx.albums, album),
   album |-> idx.album]

WithAlbum(idx, item) ==
  IF item.album = None THEN idx
  ELSE LET known == AlbumAt(idx, item.artist, item.album) # 0
           base == IF known THEN idx ELSE WithNewAlbum(idx, item)
           i == AlbumAt(base, item.artist, item.album)
       IN [artists |-> base.artists,
           albums |-> [base.albums EXCEPT ![i] = WithTrack(@, item)],
           album |-> [id \in DOMAIN base.album \cup {item.id} |->
                        IF id = item.id THEN i ELSE base.album[id]]]

-----------------------------------------------------------------------------
(***************************************************************************)
(* link_album_covers: one pass over the images.                            *)
(***************************************************************************)

(* cover_name_score.                                                       *)
Score(item) ==
  CASE item.stem = "cover" -> 3
    [] item.stem = "folder" -> 2
    [] item.stem = "front" -> 1
    [] OTHER -> 0

(* The album whose tracks have their directory in common with the image,   *)
(* if it is the only one.                                                  *)
AlbumByDir(idx, image) ==
  LET at == {i \in DOMAIN idx.albums :
               image.dir # <<>> /\ idx.albums[i].dir = image.dir}
  IN IF Cardinality(at) = 1 THEN CHOOSE i \in at : TRUE ELSE 0

AlbumByPath(idx, image) ==
  SelectInSeq(idx.albums,
    LAMBDA a : ~a.groupMixed /\ a.group = <<image.artist, image.album>>)

AlbumOfImage(idx, image) ==
  LET candidates == <<AlbumByDir(idx, image)>> \o
        (IF image.album = None THEN <<>>
         ELSE <<AlbumAt(idx, image.artist, image.album), AlbumByPath(idx, image)>>)
      found == SelectSeq(candidates, LAMBDA i : i # 0)
  IN IF found = <<>> THEN 0 ELSE Head(found)

Better_Later(image, other) == Score(image) >= Score(other)
Better(image, other) ==
  \/ Score(image) > Score(other)
  \/ Score(image) = Score(other) /\ image.id < other.id

WithCover(items, idx, image) ==
  LET i == AlbumOfImage(idx, image)
      current == {item \in Range(items) : item.id = idx.albums[i].cover}
  IN IF i # 0 /\ \A item \in current : Better(image, item)
     THEN [idx EXCEPT !.albums[i].cover = image.id]
     ELSE idx

(* One item after the other, of those of a kind.                           *)
WithItem(items, idx, item) ==
  IF IsAudio(item) THEN WithAlbum(WithArtist(idx, item), item)
                   ELSE WithCover(items, idx, item)

Pass(items, kind, start) ==
  LET after[n \in 0..Len(items)] ==
        IF n = 0 THEN start
        ELSE IF items[n].kind = kind THEN WithItem(items, after[n - 1], items[n])
        ELSE after[n - 1]
  IN after[Len(items)]

Grouped(items) == Pass(items, "audio", EmptyIndex)
Build(items) == Pass(items, "image", Grouped(items))

(* browse_album_owns_item.                                                 *)
Owns(album, item) ==
  IsAudio(item) /\ item.artist = album.artist /\ item.album = album.name

Owned(album) == {item \in Range(catalog) : Owns(album, item)}

-----------------------------------------------------------------------------
(***************************************************************************)
(* Catalogues a scan finds.  Tracks come in any arrangement of tags, so    *)
(* their order may be fixed; images have ids in either order, as adopted   *)
(* ids may be.  What an image has for artist and album is in its path.     *)
(***************************************************************************)

TrackItem(i, dir, artist, album, date) ==
  [id |-> i, kind |-> "audio", dir |-> dir, stem |-> None, ext |-> None,
   artist |-> artist, album |-> album, date |-> date]

ImageItem(id, dir, stem, ext) ==
  [id |-> id, kind |-> "image", dir |-> dir, stem |-> stem, ext |-> ext,
   artist |-> PathGroup(dir)[1], album |-> PathGroup(dir)[2], date |-> None]

PathOf(image) == <<image.dir, image.stem, image.ext>>

NoReply == [op |-> "none"]

TracksOf(count) ==
  {[i \in 1..count |-> TrackItem(i, dir[i], artist[i], album[i], date[i])] :
     dir \in [1..count -> TrackDir], artist \in [1..count -> Artist],
     album \in [1..count -> Album], date \in [1..count -> Date]}

ImagesOf(count, first) ==
  {[j \in 1..count |-> ImageItem(ids[j], name[j][1], name[j][2], "jpg")] :
     name \in {f \in [1..count -> ImageDir \X ImageStem] : IsInjective(f)},
     ids \in {[j \in 1..count |-> first + j], [j \in 1..count |-> first + count + 1 - j]}}

Init ==
  /\ \E shape \in Shape :
       \E tracks \in TracksOf(shape[1]), images \in ImagesOf(shape[2], shape[1]) :
         catalog = tracks \o images
  /\ index = Build(catalog)
  /\ reply = NoReply

-----------------------------------------------------------------------------
(***************************************************************************)
(* Patching an album changes every item it owns.  A field that is cleared   *)
(* shows again what was scanned: one more arrangement as in Init.  Early   *)
(* returns, and failures before the swap, change nothing.                  *)
(***************************************************************************)

PatchAlbum(id, field, value) ==
  /\ id \in DOMAIN index.albums
  /\ catalog' = [i \in DOMAIN catalog |->
                   IF Owns(index.albums[id], catalog[i])
                   THEN [catalog[i] EXCEPT ![field] = value] ELSE catalog[i]]
  /\ index' = Build(catalog')
  /\ reply' = NoReply

PatchTrack(i, field, value) ==
  /\ i \in DOMAIN catalog /\ IsAudio(catalog[i])
  /\ catalog' = [catalog EXCEPT ![i][field] = value]
  /\ index' = Build(catalog')
  /\ reply' = NoReply

-----------------------------------------------------------------------------
(***************************************************************************)
(* Putting the cover of an album: resolve_album_cover_dir looks for the    *)
(* directory the owned tracks have in common, the image is written there,  *)
(* added to a clone, and the index of the clone must give the album a      *)
(* cover.                                                                  *)
(***************************************************************************)

(* <<>> for an error: no directory, or nothing in common.                  *)
ResolvedCoverDir(album) ==
  IF Owned(album) = {} THEN <<>>
  ELSE LongestCommonPrefix({item.dir : item \in Owned(album)})

Cover(album, ext) ==
  ImageItem(Max({item.id : item \in Range(catalog)}) + 1, ResolvedCoverDir(album),
            "cover", ext)

Uploaded(image) ==
  IF \E item \in Range(catalog) : IsImage(item) /\ PathOf(item) = PathOf(image)
  THEN catalog ELSE Append(catalog, image)

PutCover(id, ext) ==
  /\ id \in DOMAIN index.albums
  /\ ResolvedCoverDir(index.albums[id]) # <<>>
  /\ LET image == Cover(index.albums[id], ext) IN
     /\ catalog' = Uploaded(image)
     /\ Len(catalog') <= MaxItems[Cardinality({i \in DOMAIN catalog : IsAudio(catalog[i])})]
     /\ index' = Build(catalog')
     /\ index'.albums[id].cover # 0
     /\ reply' = [op |-> "cover", path |-> PathOf(image),
                  cover |-> index'.albums[id].cover]

-----------------------------------------------------------------------------
ValuesOf(field) == CASE field = "artist" -> Artist [] field = "album" -> Album
                     [] OTHER -> Date

Next ==
  \/ \E id \in DOMAIN catalog, field \in {"artist", "album", "date"} :
       \E value \in ValuesOf(field) : PatchAlbum(id, field, value) \/ PatchTrack(id, field, value)
  \/ \E id \in DOMAIN catalog, ext \in Extension : PutCover(id, ext)

Spec == Init /\ [][Next]_vars

-----------------------------------------------------------------------------
(***************************************************************************)
(* Properties                                                              *)
(***************************************************************************)

Albums == index.albums
Artists == index.artists

(* The index counts and links exactly the tracks that owns_item says an    *)
(* album has, so that album ids, track pages and patches agree; and an     *)
(* artist has as many albums and tracks as there are under its name.       *)
TracksCounted ==
  /\ \A i \in DOMAIN Albums :
       /\ Albums[i].tracks = Cardinality(Owned(Albums[i]))
       /\ \A item \in Owned(Albums[i]) : index.album[item.id] = i
  /\ DOMAIN index.album =
       {item.id : item \in UNION {Owned(Albums[i]) : i \in DOMAIN Albums}}
  /\ \A i \in DOMAIN Artists :
       /\ Artists[i].albums = Cardinality({j \in DOMAIN Albums : Albums[j].artistId = i})
       /\ Artists[i].tracks =
            Cardinality({item \in Range(catalog) :
                           IsAudio(item) /\ item.artist = Artists[i].name})

(* An album shows a date if and only if all its tracks have it.            *)
DatesShared ==
  \A i \in DOMAIN Albums :
    LET dates == {item.date : item \in Owned(Albums[i])}
    IN Albums[i].date = (IF Cardinality(dates) = 1 THEN CHOOSE d \in dates : TRUE ELSE None)

(* A cover is written to the directory where the index looks for it.       *)
CoverDirsAgree == \A i \in DOMAIN Albums : Albums[i].dir = ResolvedCoverDir(Albums[i])

(* An album has the best of the images that belong to it, in whatever      *)
(* order the catalogue lists them.                                         *)
CoverIsBest ==
  \A i \in DOMAIN Albums :
    LET images == {item \in Range(catalog) :
                     IsImage(item) /\ AlbumOfImage(index, item) = i}
        best == {image \in images : \A other \in images \ {image} : Better(image, other)}
    IN Albums[i].cover = (IF best = {} THEN 0 ELSE (CHOOSE image \in best : TRUE).id)

(* The cover id of a successful upload is that of the image at the path    *)
(* the same reply names.                                                   *)
UploadedIsCover ==
  reply.op = "cover" => PathOf(ItemWithId(reply.cover)) = reply.path
=============================================================================
