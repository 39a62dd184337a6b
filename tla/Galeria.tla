------------------------------- MODULE Galeria -------------------------------
(***************************************************************************)
(* Albums, photos and their files in the storage bucket under concurrent   *)
(* requests (app/services/galeria_service.py).  A handler talks to two     *)
(* services that share no transaction: the storage, one file per call, and *)
(* the database, where it commits last.  Any step may be the last one of   *)
(* its request.                                                            *)
(*                                                                         *)
(* Captions and order are left out: no handler decides anything by them.   *)
(* The event of an album, of which it has one at most, is in NomesUnicos,  *)
(* and the script that replaces the files of photos in Recompressao.       *)
(***************************************************************************)
EXTENDS FiniteSets

CONSTANTS
  Albuns,    \* primary keys of galeria_albuns
  Fotos,     \* primary keys of galeria_fotos
  Arquivos,  \* paths in the bucket
  Requests,  \* slots for requests in flight
  Nenhum     \* no file, no request

\* Keys and paths are drawn once: what is removed never comes back.
Vida == {"novo", "existe", "removido"}

\* The picture a photo shows (url: a file of the bucket, or Nenhum for a picture
\* elsewhere) and the file that goes with it (arquivo: storage_path, NULL for a
\* photo that was added by URL, also when that URL is one of the bucket).
Foto == [vida : Vida, album : Albuns \cup {Nenhum}, url : Arquivos \cup {Nenhum},
         arquivo : Arquivos \cup {Nenhum}]

Operation == {"upload", "url", "deleteFoto", "deleteAlbum"}

\* A request in flight: the album or photo it is about, the rows it has loaded
\* (deletions), the files it still has to remove, the URL and the path to insert.
Request ==
  [op : Operation, pc : {"storage", "banco"},
   album : Albuns \cup {Nenhum}, fotos : SUBSET Fotos, restantes : SUBSET Arquivos,
   url : Arquivos \cup {Nenhum}, arquivo : Arquivos \cup {Nenhum}]

ASSUME NenhumAssumption ==
  Nenhum \notin Albuns /\ Nenhum \notin Arquivos /\ Nenhum \notin Request

VARIABLES
  albuns,  \* [Albuns -> Vida]
  fotos,   \* [Fotos -> Foto]
  bucket,  \* [Arquivos -> Vida]
  req      \* [Requests -> Request or Nenhum]

vars == <<albuns, fotos, bucket, req>>

Idle(q) == req[q] = Nenhum
At(q, pc) == req[q] # Nenhum /\ req[q].pc = pc

FotosDe(a) == {f \in Fotos : fotos[f].vida = "existe" /\ fotos[f].album = a}
ArquivosDe(fs) == {fotos[f].arquivo : f \in fs} \ {Nenhum}

Start(q, op, pc, a, fs, files, u) ==
  req' = [req EXCEPT ![q] = [op |-> op, pc |-> pc, album |-> a, fotos |-> fs,
                             restantes |-> files, url |-> u, arquivo |-> Nenhum]]

Init ==
  /\ albuns = [a \in Albuns |-> "novo"]
  /\ fotos = [f \in Fotos |-> [vida |-> "novo", album |-> Nenhum, url |-> Nenhum,
                          arquivo |-> Nenhum]]
  /\ bucket = [x \in Arquivos |-> "novo"]
  /\ req = [q \in Requests |-> Nenhum]

\* POST /gallery/albums: one INSERT.
CreateAlbum(a) ==
  /\ albuns[a] = "novo"
  /\ albuns' = [albuns EXCEPT ![a] = "existe"]
  /\ UNCHANGED <<fotos, bucket, req>>

\* POST /gallery/albums/{a}/photos: the album is looked up before the upload.
UploadFoto(q, a) ==
  /\ Idle(q)
  /\ albuns[a] = "existe"
  /\ Start(q, "upload", "storage", a, {}, {}, Nenhum)
  /\ UNCHANGED <<albuns, fotos, bucket>>

\* POST /gallery/albums/{a}/photos/url, with any string: a picture elsewhere, or
\* a file of the bucket, whosever it is.  (A URL of a file that is gone, or never
\* was, is like one elsewhere: the script only stops at it, as it may anywhere.)
AddFotoByUrl(q, a, u) ==
  /\ Idle(q)
  /\ albuns[a] = "existe"
  /\ u # Nenhum => bucket[u] = "existe"
  /\ Start(q, "url", "banco", a, {}, {}, u)
  /\ UNCHANGED <<albuns, fotos, bucket>>

\* DELETE /gallery/photos/{f}.
DeleteFoto(q, f) ==
  /\ Idle(q)
  /\ fotos[f].vida = "existe"
  /\ Start(q, "deleteFoto", "storage", Nenhum, {f}, ArquivosDe({f}), Nenhum)
  /\ UNCHANGED <<albuns, fotos, bucket>>

\* Defective variant: the photos are left to the database's cascade.
DeleteAlbumNoFiles(q, a) ==
  /\ Idle(q)
  /\ albuns[a] = "existe"
  /\ Start(q, "deleteAlbum", "storage", a, FotosDe(a), {}, Nenhum)
  /\ UNCHANGED <<albuns, fotos, bucket>>

\* DELETE /gallery/albums/{a}: the album is loaded with its photos.
DeleteAlbum(q, a) ==
  /\ Idle(q)
  /\ albuns[a] = "existe"
  /\ Start(q, "deleteAlbum", "storage", a, FotosDe(a), ArquivosDe(FotosDe(a)), Nenhum)
  /\ UNCHANGED <<albuns, fotos, bucket>>

\* Defective variant: a path made of the file's own name, stored over.
BuildPathReused(x) == bucket[x] # "removido"

\* _build_path: a path that was never used (a time and eight random digits).
BuildPath(x) == bucket[x] = "novo"

\* Defective variant: the path is not recognised in the URL (NULL is stored).
StoreFileNoPath(q, x) ==
  /\ At(q, "storage") /\ req[q].op = "upload"
  /\ BuildPath(x)
  /\ bucket' = [bucket EXCEPT ![x] = "existe"]
  /\ req' = [req EXCEPT ![q].pc = "banco", ![q].url = x]
  /\ UNCHANGED <<albuns, fotos>>

\* upload_file, on a thread of its own while other requests go on.
StoreFile(q, x) ==
  /\ At(q, "storage") /\ req[q].op = "upload"
  /\ BuildPath(x)
  /\ bucket' = [bucket EXCEPT ![x] = "existe"]
  /\ req' = [req EXCEPT ![q].pc = "banco", ![q].url = x, ![q].arquivo = x]
  /\ UNCHANGED <<albuns, fotos>>

\* remove_file, one call per file; a file that is not there is no error.
RemoveFile(q, x) ==
  /\ At(q, "storage") /\ req[q].op # "upload"
  /\ x \in req[q].restantes
  /\ bucket' = [bucket EXCEPT ![x] = "removido"]
  /\ req' = [req EXCEPT ![q].restantes = @ \ {x}]
  /\ UNCHANGED <<albuns, fotos>>

\* add_foto: INSERT; the foreign key refuses it when the album is gone
\* (RequestEnds).
RepoAddFoto(q, f) ==
  /\ At(q, "banco")
  /\ albuns[req[q].album] = "existe"
  /\ fotos[f].vida = "novo"
  /\ fotos' = [fotos EXCEPT ![f] = [vida |-> "existe", album |-> req[q].album,
                                    url |-> req[q].url, arquivo |-> req[q].arquivo]]
  /\ req' = [req EXCEPT ![q] = Nenhum]
  /\ UNCHANGED <<albuns, bucket>>

\* Of a row that is gone only the file is remembered.
Removed(fs) ==
  [f \in Fotos |-> IF f \in fs THEN [fotos[f] EXCEPT !.vida = "removido", !.url = Nenhum]
                               ELSE fotos[f]]

\* delete_foto: DELETE by key, once its file is removed.
RepoDeleteFoto(q) ==
  /\ At(q, "storage") /\ req[q].op = "deleteFoto"
  /\ req[q].restantes = {}
  /\ fotos' = Removed(req[q].fotos)
  /\ req' = [req EXCEPT ![q] = Nenhum]
  /\ UNCHANGED <<albuns, bucket>>

\* Defective variant: only the photos the handler has loaded are deleted.
AlbumRowsLoaded(q) == req[q].fotos

\* The photos that go with an album: those the session has loaded, and by the
\* foreign key's ON DELETE CASCADE those added since.
AlbumRows(q) == req[q].fotos \cup FotosDe(req[q].album)

\* delete_album, once every file is removed.
RepoDeleteAlbum(q) ==
  /\ At(q, "storage") /\ req[q].op = "deleteAlbum"
  /\ req[q].restantes = {}
  /\ albuns' = [albuns EXCEPT ![req[q].album] = "removido"]
  /\ fotos' = Removed(AlbumRows(q))
  /\ req' = [req EXCEPT ![q] = Nenhum]
  /\ UNCHANGED bucket

\* The request ends where it is: a storage or database error, a failed foreign
\* key, a process that was stopped.
RequestEnds(q) ==
  /\ ~Idle(q)
  /\ req' = [req EXCEPT ![q] = Nenhum]
  /\ UNCHANGED <<albuns, fotos, bucket>>

Next ==
  \/ \E a \in Albuns : CreateAlbum(a)
  \/ \E q \in Requests :
       \/ \E a \in Albuns :
            \/ UploadFoto(q, a)
            \/ \E u \in Arquivos \cup {Nenhum} : AddFotoByUrl(q, a, u)
            \/ DeleteAlbum(q, a)
       \/ \E f \in Fotos :
            \/ DeleteFoto(q, f)
            \/ RepoAddFoto(q, f)
       \/ \E x \in Arquivos :
            \/ StoreFile(q, x)
            \/ RemoveFile(q, x)
       \/ RepoDeleteFoto(q)
       \/ RepoDeleteAlbum(q)
       \/ RequestEnds(q)

Spec == Init /\ [][Next]_vars

-----------------------------------------------------------------------------
(* Properties.                                                             *)

Existe(f) == fotos[f].vida = "existe"

\* Types; a row in the table has an album, and the files it names were stored; a
\* request about to insert a row has a file unless the photo is a URL.
TypeOK ==
  /\ albuns \in [Albuns -> Vida]
  /\ fotos \in [Fotos -> Foto]
  /\ bucket \in [Arquivos -> Vida]
  /\ req \in [Requests -> Request \cup {Nenhum}]
  /\ \A f \in Fotos :
       /\ Existe(f) => fotos[f].album \in Albuns
       /\ fotos[f].arquivo # Nenhum => fotos[f].vida # "novo" /\ bucket[fotos[f].arquivo] # "novo"
       /\ fotos[f].url # Nenhum => bucket[fotos[f].url] # "novo"
  /\ \A q \in Requests : req[q] # Nenhum =>
       /\ req[q].op # "deleteFoto" => req[q].album \in Albuns
       /\ req[q].pc = "banco" =>
            req[q].op = (IF req[q].arquivo = Nenhum THEN "url" ELSE "upload")
       /\ req[q].arquivo # Nenhum => bucket[req[q].arquivo] # "novo"
       /\ req[q].url # Nenhum => bucket[req[q].url] # "novo"

\* A photo whose upload raced the deletion of its album is not left in an
\* album that is gone: the public gallery shows no photo without an album.
PhotosHaveAnAlbum ==
  \A f \in Fotos : Existe(f) => albuns[fotos[f].album] = "existe"

\* No two photos have the same storage_path, those that uploads are still to
\* insert and those already deleted included: no deletion removes the file of
\* another photo.  (Several may show one file: those that were added by its URL.)
FilesAreNotShared ==
  /\ \A f, g \in Fotos :
       f # g /\ fotos[f].arquivo # Nenhum => fotos[f].arquivo # fotos[g].arquivo
  /\ \A f \in Fotos, q \in Requests :
       req[q] # Nenhum /\ fotos[f].arquivo # Nenhum => req[q].arquivo # fotos[f].arquivo
=============================================================================
