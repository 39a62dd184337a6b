-------------------------- MODULE RecompressaoProofs --------------------------
(***************************************************************************)
(* Proofs about the gallery beside the script (Recompressao), for any      *)
(* number of albums, photos, files and concurrent requests.  The invariant *)
(* of the requests comes first; to it the script adds that a file it is to *)
(* replace is only of the photo it is listed with, unless its URL was      *)
(* given as another photo, that the one it has stored is nobody's until    *)
(* the UPDATE, and what deletions know of their photos.                    *)
(***************************************************************************)
EXTENDS Recompressao, TLAPS

-----------------------------------------------------------------------------
(* The requests, without the script.  Two uploads in flight have different *)
(* files; a file that a deletion has still to remove was stored, and is no *)
(* picture of a photo that it has not loaded.                              *)

UploadsDiffer ==
  \A p, q \in Requests :
    p # q /\ req[p] # Nenhum /\ req[q] # Nenhum /\ req[p].arquivo # Nenhum
    => req[p].arquivo # req[q].arquivo

\* The file x was stored, and of all photos only those of fs may have it.
Condemned(x, fs) ==
  /\ bucket[x] # "novo"
  /\ \A f \in Fotos : fotos[f].arquivo = x => f \in fs
  /\ \A q \in Requests : req[q] # Nenhum => req[q].arquivo # x

FilesOfLoaded ==
  \A q \in Requests : req[q] # Nenhum =>
    \A x \in req[q].restantes : Condemned(x, req[q].fotos)

IInv ==
  TypeOK /\ PhotosHaveAnAlbum /\ FilesAreNotShared /\ UploadsDiffer /\ FilesOfLoaded

\* The first state of a request is one.
LEMMA StartTypes ==
  ASSUME NEW op \in Operation, NEW pc \in {"storage", "banco"},
         NEW a \in Albuns \cup {Nenhum}, NEW fs \in SUBSET Fotos,
         NEW files \in SUBSET Arquivos, NEW u \in Arquivos \cup {Nenhum}
  PROVE  [op |-> op, pc |-> pc, album |-> a, fotos |-> fs,
          restantes |-> files, url |-> u, arquivo |-> Nenhum] \in Request
  BY DEF Request

\* The files of a set of photos are paths that only they have.
LEMMA FilesOf ==
  ASSUME TypeOK, FilesAreNotShared, NEW fs \in SUBSET Fotos
  PROVE  /\ ArquivosDe(fs) \in SUBSET Arquivos
         /\ \A x \in ArquivosDe(fs) : Condemned(x, fs)
<1>1. ASSUME NEW x \in ArquivosDe(fs) PROVE x \in Arquivos /\ Condemned(x, fs)
  <2>1. PICK f \in fs : fotos[f].arquivo = x /\ x # Nenhum
    BY <1>1 DEF ArquivosDe
  <2> QED BY <2>1 DEF TypeOK, Foto, FilesAreNotShared, Condemned
<1> QED BY <1>1

\* What is to be removed stays so as long as no photo and no upload gets it:
\* photos only get files of uploads.
LEMMA FilesStayLoaded ==
  ASSUME IInv,
         \A x \in Arquivos : bucket[x] # "novo" =>
           /\ bucket'[x] # "novo"
           /\ \A f \in Fotos : fotos'[f].arquivo = x =>
                fotos[f].arquivo = x \/ \E q \in Requests : req[q] # Nenhum /\ req[q].arquivo = x
           /\ \A q \in Requests : req'[q] # Nenhum /\ req'[q].arquivo = x =>
                req[q] # Nenhum /\ req[q].arquivo = x,
         \A q \in Requests : req'[q] # Nenhum =>
           \/ /\ req[q] # Nenhum /\ req'[q].fotos = req[q].fotos
              /\ req'[q].restantes \subseteq req[q].restantes
           \/ \A x \in req'[q].restantes : x \in Arquivos /\ Condemned(x, req'[q].fotos)
  PROVE  FilesOfLoaded'
<1> SUFFICES ASSUME NEW q \in Requests, req'[q] # Nenhum, NEW x \in req'[q].restantes
             PROVE  Condemned(x, req[q].fotos)'
  BY DEF FilesOfLoaded
<1>1. x \in Arquivos /\ Condemned(x, req'[q].fotos)
  BY DEF IInv, TypeOK, Request, FilesOfLoaded
<1> QED BY <1>1 DEF Condemned

\* The initial state.
LEMMA InitIInv == Init => IInv
  BY NenhumAssumption
  DEF Init, IInv, TypeOK, PhotosHaveAnAlbum, FilesAreNotShared, UploadsDiffer,
      FilesOfLoaded, Foto, Vida, Existe

\* A step that starts a request: nothing else changes, and the request has no
\* file and only files of the photos it has loaded.
LEMMA StartStep ==
  ASSUME IInv, NEW q \in Requests, Idle(q),
         NEW op \in Operation, NEW pc \in {"storage", "banco"},
         NEW a \in Albuns \cup {Nenhum}, NEW fs \in SUBSET Fotos,
         NEW files \in SUBSET Arquivos, NEW u \in Arquivos \cup {Nenhum},
         u # Nenhum => bucket[u] # "novo",
         op # "deleteFoto" => a \in Albuns,
         pc = "banco" => op = "url",
         \A x \in files : Condemned(x, fs),
         Start(q, op, pc, a, fs, files, u),
         UNCHANGED <<albuns, fotos, bucket>>
  PROVE  IInv'
<1> DEFINE r == [op |-> op, pc |-> pc, album |-> a, fotos |-> fs,
                 restantes |-> files, url |-> u, arquivo |-> Nenhum]
<1>1. r \in Request /\ r # Nenhum
  BY StartTypes, NenhumAssumption
<1>2. req' = [req EXCEPT ![q] = r] /\ req \in [Requests -> Request \cup {Nenhum}]
  BY DEF Start, IInv, TypeOK
<1>3. req' \in [Requests -> Request \cup {Nenhum}]
  BY <1>1, <1>2
<1>4. req'[q] = r /\ \A p \in Requests : p # q => req'[p] = req[p]
  BY <1>2
<1>5. r.op = op /\ r.pc = pc /\ r.album = a /\ r.fotos = fs /\ r.restantes = files
      /\ r.url = u /\ r.arquivo = Nenhum
  OBVIOUS
<1> HIDE DEF r
<1>6. TypeOK'
  BY <1>1, <1>3, <1>4, <1>5 DEF IInv, TypeOK, Existe
<1>7. PhotosHaveAnAlbum'
  BY DEF IInv, PhotosHaveAnAlbum, Existe
<1>8. FilesAreNotShared'
  BY <1>1, <1>4, <1>5 DEF IInv, FilesAreNotShared
<1>9. UploadsDiffer'
  BY <1>1, <1>4, <1>5 DEF IInv, UploadsDiffer
<1>10. FilesOfLoaded'
  BY <1>1, <1>4, <1>5, NenhumAssumption, FilesStayLoaded
<1> QED BY <1>6, <1>7, <1>8, <1>9, <1>10 DEF IInv

\* A step that ends a request without touching anything.
LEMMA EndStep ==
  ASSUME IInv, NEW q \in Requests, RequestEnds(q)
  PROVE  IInv'
<1>1. req' = [req EXCEPT ![q] = Nenhum] /\ UNCHANGED <<albuns, fotos, bucket>>
      /\ req \in [Requests -> Request \cup {Nenhum}]
  BY DEF RequestEnds, IInv, TypeOK
<1>2. req'[q] = Nenhum /\ \A p \in Requests : p # q => req'[p] = req[p]
  BY <1>1
<1>3. TypeOK'
  BY <1>1, <1>2 DEF IInv, TypeOK, Existe
<1>4. PhotosHaveAnAlbum' /\ FilesAreNotShared' /\ UploadsDiffer'
  BY <1>1, <1>2
  DEF IInv, PhotosHaveAnAlbum, FilesAreNotShared, UploadsDiffer, Existe
<1>5. FilesOfLoaded'
  BY <1>1, <1>2, FilesStayLoaded
<1> QED BY <1>3, <1>4, <1>5 DEF IInv

\* Storing a file: the path is new, so nothing names it.
LEMMA StoreStep ==
  ASSUME IInv, NEW q \in Requests, NEW x \in Arquivos, StoreFile(q, x)
  PROVE  IInv'
<1> DEFINE r == [req[q] EXCEPT !.pc = "banco", !.url = x, !.arquivo = x]
<1>1. /\ req \in [Requests -> Request \cup {Nenhum}] /\ bucket \in [Arquivos -> Vida]
      /\ req[q] \in Request /\ req[q].op = "upload" /\ bucket[x] = "novo" /\ x # Nenhum
      /\ req[q].album \in Albuns
  BY NenhumAssumption DEF StoreFile, At, BuildPath, IInv, TypeOK
<1>2. r \in Request /\ r # Nenhum
  BY <1>1, NenhumAssumption DEF Request
<1>3. req' = [req EXCEPT ![q] = r]
  BY <1>1 DEF StoreFile
<1>4. req'[q] = r /\ \A p \in Requests : p # q => req'[p] = req[p]
  BY <1>1, <1>3
<1>5. /\ r.pc = "banco" /\ r.arquivo = x /\ r.url = x /\ r.op = "upload" /\ r.album = req[q].album
      /\ r.fotos = req[q].fotos /\ r.restantes = req[q].restantes
  BY <1>1 DEF Request
<1>6. req' \in [Requests -> Request \cup {Nenhum}]
  BY <1>1, <1>2, <1>3
<1> HIDE DEF r
<1>7. /\ UNCHANGED <<albuns, fotos>> /\ bucket' \in [Arquivos -> Vida] /\ bucket'[x] = "existe"
      /\ \A y \in Arquivos : y # x => bucket'[y] = bucket[y]
  BY <1>1 DEF StoreFile, Vida
<1>8. /\ \A f \in Fotos : fotos[f].arquivo # x /\ fotos[f].url # x
      /\ \A p \in Requests : req[p] # Nenhum => req[p].arquivo # x /\ req[p].url # x
  BY <1>1 DEF IInv, TypeOK
<1>9. /\ \A f \in Fotos : /\ fotos[f].arquivo \in Arquivos \cup {Nenhum}
                           /\ fotos[f].url \in Arquivos \cup {Nenhum}
      /\ \A p \in Requests : req[p] # Nenhum =>
           req[p].arquivo \in Arquivos \cup {Nenhum} /\ req[p].url \in Arquivos \cup {Nenhum}
  BY <1>1 DEF IInv, TypeOK, Foto, Request
<1>10. TypeOK'
  <2>1. \A f \in Fotos :
          /\ Existe(f)' => fotos'[f].album \in Albuns
          /\ fotos'[f].arquivo # Nenhum =>
               fotos'[f].vida # "novo" /\ bucket'[fotos'[f].arquivo] # "novo"
          /\ fotos'[f].url # Nenhum => bucket'[fotos'[f].url] # "novo"
    BY <1>7, <1>8, <1>9 DEF IInv, TypeOK, Existe
  <2>2. \A p \in Requests : req'[p] # Nenhum =>
          /\ req'[p].op # "deleteFoto" => req'[p].album \in Albuns
          /\ req'[p].pc = "banco" =>
                      req'[p].op = (IF req'[p].arquivo = Nenhum THEN "url" ELSE "upload")
          /\ req'[p].arquivo # Nenhum => bucket'[req'[p].arquivo] # "novo"
          /\ req'[p].url # Nenhum => bucket'[req'[p].url] # "novo"
    <3>1. ASSUME NEW p \in Requests, p # q, req'[p] # Nenhum
          PROVE  /\ req'[p].op # "deleteFoto" => req'[p].album \in Albuns
                 /\ req'[p].pc = "banco" =>
                      req'[p].op = (IF req'[p].arquivo = Nenhum THEN "url" ELSE "upload")
                 /\ req'[p].arquivo # Nenhum => bucket'[req'[p].arquivo] # "novo"
                 /\ req'[p].url # Nenhum => bucket'[req'[p].url] # "novo"
      BY <3>1, <1>4, <1>7, <1>8, <1>9 DEF IInv, TypeOK
    <3> QED BY <3>1, <1>1, <1>4, <1>5, <1>7
  <2> QED BY <2>1, <2>2, <1>6, <1>7 DEF IInv, TypeOK
<1>11. PhotosHaveAnAlbum'
  BY <1>7 DEF IInv, PhotosHaveAnAlbum, Existe
<1>12. FilesAreNotShared'
  BY <1>4, <1>5, <1>7, <1>8 DEF IInv, FilesAreNotShared
<1>13. UploadsDiffer'
  BY <1>4, <1>5, <1>8 DEF IInv, UploadsDiffer
<1>14. FilesOfLoaded'
  BY <1>1, <1>4, <1>5, <1>7, FilesStayLoaded, NenhumAssumption
<1> QED BY <1>10, <1>11, <1>12, <1>13, <1>14 DEF IInv

\* Removing a file: the rows stay, and one file less is to be removed.
LEMMA RemoveStep ==
  ASSUME IInv, NEW q \in Requests, NEW x \in Arquivos, RemoveFile(q, x)
  PROVE  IInv'
<1> DEFINE r == [req[q] EXCEPT !.restantes = @ \ {x}]
<1>1. /\ req \in [Requests -> Request \cup {Nenhum}] /\ bucket \in [Arquivos -> Vida]
      /\ req[q] \in Request /\ req[q] # Nenhum
  BY NenhumAssumption DEF RemoveFile, At, IInv, TypeOK
<1>2. r \in Request /\ r # Nenhum
  BY <1>1, NenhumAssumption DEF Request
<1>3. req' = [req EXCEPT ![q] = r]
  BY <1>1 DEF RemoveFile
<1>4. req'[q] = r /\ \A p \in Requests : p # q => req'[p] = req[p]
  BY <1>1, <1>3
<1>5. /\ r.pc = req[q].pc /\ r.arquivo = req[q].arquivo /\ r.op = req[q].op
      /\ r.url = req[q].url
      /\ r.album = req[q].album /\ r.fotos = req[q].fotos
      /\ r.restantes = req[q].restantes \ {x}
  BY <1>1 DEF Request
<1>6. req' \in [Requests -> Request \cup {Nenhum}]
  BY <1>1, <1>2, <1>3
<1> HIDE DEF r
<1>7. /\ UNCHANGED <<albuns, fotos>> /\ bucket' \in [Arquivos -> Vida]
      /\ \A y \in Arquivos : bucket[y] # "novo" => bucket'[y] # "novo"
  BY <1>1 DEF RemoveFile, Vida
<1>8. /\ \A f \in Fotos : /\ fotos[f].arquivo \in Arquivos \cup {Nenhum}
                           /\ fotos[f].url \in Arquivos \cup {Nenhum}
      /\ \A p \in Requests : req[p] # Nenhum =>
           req[p].arquivo \in Arquivos \cup {Nenhum} /\ req[p].url \in Arquivos \cup {Nenhum}
  BY <1>1 DEF IInv, TypeOK, Foto, Request
<1>9. TypeOK'
  BY <1>1, <1>4, <1>5, <1>6, <1>7, <1>8 DEF IInv, TypeOK, Existe
<1>10. PhotosHaveAnAlbum'
  BY <1>7 DEF IInv, PhotosHaveAnAlbum, Existe
<1>11. FilesAreNotShared'
  BY <1>1, <1>4, <1>5, <1>7 DEF IInv, FilesAreNotShared
<1>12. UploadsDiffer'
  BY <1>1, <1>4, <1>5 DEF IInv, UploadsDiffer
<1>13. FilesOfLoaded'
  BY <1>1, <1>4, <1>5, <1>7, FilesStayLoaded
<1> QED BY <1>9, <1>10, <1>11, <1>12, <1>13 DEF IInv

\* Inserting a photo: its album exists, and its file is no other photo's.
LEMMA AddStep ==
  ASSUME IInv, NEW q \in Requests, NEW f \in Fotos, RepoAddFoto(q, f)
  PROVE  IInv'
<1> DEFINE n == [vida |-> "existe", album |-> req[q].album, url |-> req[q].url,
                 arquivo |-> req[q].arquivo]
<1>1. /\ req \in [Requests -> Request \cup {Nenhum}] /\ fotos \in [Fotos -> Foto]
      /\ req[q] \in Request /\ req[q] # Nenhum
      /\ req[q].album \in Albuns /\ albuns[req[q].album] = "existe"
      /\ fotos[f].vida = "novo"
      /\ req[q].arquivo # Nenhum => bucket[req[q].arquivo] # "novo"
      /\ req[q].url # Nenhum => bucket[req[q].url] # "novo"
  BY NenhumAssumption DEF RepoAddFoto, At, IInv, TypeOK
<1>2. n \in Foto
  BY <1>1 DEF Request, Foto, Vida
<1>3. fotos' = [fotos EXCEPT ![f] = n] /\ req' = [req EXCEPT ![q] = Nenhum]
      /\ UNCHANGED <<albuns, bucket>>
  BY DEF RepoAddFoto
<1>4. fotos'[f] = n /\ \A g \in Fotos : g # f => fotos'[g] = fotos[g]
  BY <1>1, <1>3
<1>5. n.vida = "existe" /\ n.album = req[q].album /\ n.arquivo = req[q].arquivo
      /\ n.url = req[q].url
  OBVIOUS
<1>6. fotos' \in [Fotos -> Foto] /\ req' \in [Requests -> Request \cup {Nenhum}]
  BY <1>1, <1>2, <1>3
<1>7. req'[q] = Nenhum /\ \A p \in Requests : p # q => req'[p] = req[p]
  BY <1>1, <1>3
<1> HIDE DEF n
<1>8. TypeOK'
  BY <1>1, <1>3, <1>4, <1>5, <1>6, <1>7 DEF IInv, TypeOK, Existe
<1>9. PhotosHaveAnAlbum'
  BY <1>1, <1>3, <1>4, <1>5 DEF IInv, PhotosHaveAnAlbum, Existe
<1>10. FilesAreNotShared'
  <2>1. ASSUME NEW g \in Fotos, NEW h \in Fotos, g # h, fotos'[g].arquivo # Nenhum
        PROVE  fotos'[g].arquivo # fotos'[h].arquivo
    <3>1. CASE g = f
      BY <3>1, <2>1, <1>1, <1>4, <1>5 DEF IInv, FilesAreNotShared
    <3>2. CASE h = f
      BY <3>2, <2>1, <1>1, <1>4, <1>5 DEF IInv, FilesAreNotShared
    <3>3. CASE g # f /\ h # f
      BY <3>3, <2>1, <1>4 DEF IInv, FilesAreNotShared
    <3> QED BY <3>1, <3>2, <3>3
  <2>2. ASSUME NEW g \in Fotos, NEW p \in Requests, req'[p] # Nenhum,
               fotos'[g].arquivo # Nenhum
        PROVE  req'[p].arquivo # fotos'[g].arquivo
    BY <2>2, <1>1, <1>4, <1>5, <1>7 DEF IInv, FilesAreNotShared, UploadsDiffer
  <2> QED BY <2>1, <2>2 DEF FilesAreNotShared
<1>11. UploadsDiffer'
  BY <1>7 DEF IInv, UploadsDiffer
<1>12. FilesOfLoaded'
  BY <1>1, <1>3, <1>4, <1>5, <1>7, FilesStayLoaded
<1> QED BY <1>8, <1>9, <1>10, <1>11, <1>12 DEF IInv

\* Deleting rows leaves every row's file and album as they were, so only the
\* photos of albums that are gone need a look.
LEMMA RowsStep ==
  ASSUME IInv, NEW q \in Requests, NEW fs \in SUBSET Fotos,
         req[q] # Nenhum,
         fotos' = Removed(fs),
         req' = [req EXCEPT ![q] = Nenhum],
         bucket' = bucket,
         albuns' \in [Albuns -> Vida],
         \A f \in Fotos \ fs : Existe(f) => albuns'[fotos[f].album] = "existe"
  PROVE  IInv'
<1>1. /\ req \in [Requests -> Request \cup {Nenhum}] /\ fotos \in [Fotos -> Foto]
  BY DEF IInv, TypeOK
<1>2. \A f \in Fotos :
        /\ fotos'[f].album = fotos[f].album /\ fotos'[f].arquivo = fotos[f].arquivo
        /\ fotos'[f].vida = IF f \in fs THEN "removido" ELSE fotos[f].vida
        /\ fotos'[f].url = IF f \in fs THEN Nenhum ELSE fotos[f].url
        /\ fotos'[f] \in Foto
  <2> SUFFICES ASSUME NEW f \in Fotos
               PROVE  /\ fotos'[f].album = fotos[f].album /\ fotos'[f].arquivo = fotos[f].arquivo
                      /\ fotos'[f].vida = IF f \in fs THEN "removido" ELSE fotos[f].vida
                      /\ fotos'[f].url = IF f \in fs THEN Nenhum ELSE fotos[f].url
                      /\ fotos'[f] \in Foto
    OBVIOUS
  <2>1. PICK r \in Foto : r = fotos[f]
    BY <1>1
  <2>2. fotos'[f] = IF f \in fs THEN [r EXCEPT !.vida = "removido", !.url = Nenhum] ELSE r
    BY <2>1 DEF Removed
  <2>3. CASE f \in fs
    BY <2>1, <2>2, <2>3 DEF Foto, Vida
  <2>4. CASE f \notin fs
    BY <2>1, <2>2, <2>4
  <2> QED BY <2>3, <2>4
<1>3. fotos' \in [Fotos -> Foto]
  BY <1>2 DEF Removed
<1>4. req'[q] = Nenhum /\ \A p \in Requests : p # q => req'[p] = req[p]
  BY <1>1
<1>5. TypeOK'
  BY <1>1, <1>2, <1>3, <1>4 DEF IInv, TypeOK, Existe
<1>6. PhotosHaveAnAlbum'
  BY <1>2 DEF PhotosHaveAnAlbum, Existe
<1>7. FilesAreNotShared'
  BY <1>2, <1>4 DEF IInv, FilesAreNotShared
<1>8. UploadsDiffer'
  BY <1>4 DEF IInv, UploadsDiffer
<1>9. FilesOfLoaded'
  BY <1>1, <1>2, <1>4, FilesStayLoaded
<1> QED BY <1>5, <1>6, <1>7, <1>8, <1>9 DEF IInv

\* The invariant is inductive: one lemma for each kind of step.
LEMMA NextIInv == IInv /\ [Next]_vars => IInv'
<1> SUFFICES ASSUME IInv, [Next]_vars PROVE IInv'
  OBVIOUS
<1> USE DEF Operation
<1>1. ASSUME NEW a \in Albuns, CreateAlbum(a) PROVE IInv'
  <2>1. /\ albuns' = [albuns EXCEPT ![a] = "existe"] /\ albuns \in [Albuns -> Vida]
        /\ UNCHANGED <<fotos, bucket, req>>
    BY <1>1 DEF CreateAlbum, IInv, TypeOK
  <2>2. /\ albuns' \in [Albuns -> Vida]
        /\ \A b \in Albuns : albuns[b] = "existe" => albuns'[b] = "existe"
    BY <2>1 DEF Vida
  <2>3. TypeOK'
    BY <2>1, <2>2 DEF IInv, TypeOK, Existe
  <2>4. PhotosHaveAnAlbum'
    BY <2>1, <2>2 DEF IInv, TypeOK, PhotosHaveAnAlbum, Existe
  <2>5. FilesAreNotShared' /\ UploadsDiffer' /\ FilesOfLoaded'
    BY <2>1 DEF IInv, FilesAreNotShared, UploadsDiffer, FilesOfLoaded, Condemned
  <2> QED BY <2>3, <2>4, <2>5 DEF IInv
<1>2. ASSUME NEW q \in Requests, NEW a \in Albuns, UploadFoto(q, a) PROVE IInv'
  BY <1>2, StartStep DEF UploadFoto
<1>3. ASSUME NEW q \in Requests, NEW a \in Albuns, NEW u \in Arquivos \cup {Nenhum},
             AddFotoByUrl(q, a, u)
      PROVE  IInv'
  BY <1>3, StartStep DEF AddFotoByUrl
<1>4. ASSUME NEW q \in Requests, NEW a \in Albuns, DeleteAlbum(q, a) PROVE IInv'
  <2>1. FotosDe(a) \in SUBSET Fotos
    BY DEF FotosDe
  <2> QED BY <1>4, <2>1, FilesOf, StartStep DEF DeleteAlbum, IInv
<1>5. ASSUME NEW q \in Requests, NEW f \in Fotos, DeleteFoto(q, f) PROVE IInv'
  BY <1>5, FilesOf, StartStep DEF DeleteFoto, IInv
<1>6. ASSUME NEW q \in Requests, NEW f \in Fotos, RepoAddFoto(q, f) PROVE IInv'
  BY <1>6, AddStep
<1>7. ASSUME NEW q \in Requests, NEW x \in Arquivos, StoreFile(q, x) PROVE IInv'
  BY <1>7, StoreStep
<1>8. ASSUME NEW q \in Requests, NEW x \in Arquivos, RemoveFile(q, x) PROVE IInv'
  BY <1>8, RemoveStep
<1>9. ASSUME NEW q \in Requests, RepoDeleteFoto(q) PROVE IInv'
  <2>1. req[q] # Nenhum /\ req[q].fotos \in SUBSET Fotos
    BY <1>9 DEF RepoDeleteFoto, At, IInv, TypeOK, Request
  <2>2. \A f \in Fotos : Existe(f) => albuns[fotos[f].album] = "existe"
    BY DEF IInv, PhotosHaveAnAlbum
  <2> QED BY <1>9, <2>1, <2>2, RowsStep DEF RepoDeleteFoto, IInv, TypeOK
<1>10. ASSUME NEW q \in Requests, RepoDeleteAlbum(q) PROVE IInv'
  <2>1. /\ req[q] # Nenhum /\ req[q].fotos \in SUBSET Fotos /\ req[q].album \in Albuns
        /\ albuns \in [Albuns -> Vida]
    BY <1>10 DEF RepoDeleteAlbum, At, IInv, TypeOK, Request
  <2>2. AlbumRows(q) \in SUBSET Fotos
    BY <2>1 DEF AlbumRows, FotosDe
  <2>3. albuns' = [albuns EXCEPT ![req[q].album] = "removido"] /\ albuns' \in [Albuns -> Vida]
    BY <1>10, <2>1 DEF RepoDeleteAlbum, Vida
  <2>4. ASSUME NEW f \in Fotos \ AlbumRows(q), Existe(f)
        PROVE  albuns'[fotos[f].album] = "existe"
    <3>1. fotos[f].album # req[q].album
      BY <2>4 DEF AlbumRows, FotosDe, Existe
    <3>2. fotos[f].album \in Albuns /\ albuns[fotos[f].album] = "existe"
      BY <2>4 DEF IInv, TypeOK, PhotosHaveAnAlbum
    <3> QED BY <3>1, <3>2, <2>1, <2>3
  <2> QED BY <1>10, <2>1, <2>2, <2>3, <2>4, RowsStep DEF RepoDeleteAlbum
<1>11. ASSUME NEW q \in Requests, RequestEnds(q) PROVE IInv'
  BY <1>11, EndStep
<1>12. CASE UNCHANGED vars
  BY <1>12
  DEF vars, IInv, TypeOK, PhotosHaveAnAlbum, FilesAreNotShared, UploadsDiffer,
      FilesOfLoaded, Condemned, Existe
<1> QED
  BY <1>1, <1>2, <1>3, <1>4, <1>5, <1>6, <1>7, <1>8, <1>9, <1>10, <1>11, <1>12
  DEF Next

-----------------------------------------------------------------------------
(* Beside the script.                                                      *)

\* The file x is known to be another photo's too, or is gone.
Known(x) == x \in copiadas \/ bucket[x] = "removido"

\* What a photo shows, or is about to, is its own file unless it was given by URL.
CopiedInv ==
  /\ \A f \in Fotos : fotos[f].url # Nenhum =>
       Known(fotos[f].url) \/ fotos[f].arquivo = fotos[f].url
  /\ \A q \in Requests : req[q] # Nenhum /\ req[q].url # Nenhum =>
       Known(req[q].url) \/ req[q].arquivo = req[q].url
  /\ \A x \in copiadas : bucket[x] # "novo"

\* The photo f was there, and x is its file and nobody else's, or known.
Listed(f, x) ==
  /\ fotos[f].vida # "novo" /\ bucket[x] # "novo"
  /\ Known(x) \/ Condemned(x, {f})

\* What the script has listed, and where it is.
ListedInv ==
  script # Nenhum =>
    /\ \A t \in script.fila : Listed(t[1], t[2])
    /\ script.pc # "proxima" => Listed(script.alvo, script.original)

\* The file it has stored is nobody's, and nobody is to remove or replace it.
StoredInv ==
  Rodando("gravar") =>
    /\ Condemned(script.novo, {}) /\ script.novo # script.original
    /\ \A t \in script.fila : t[2] # script.novo
    /\ \A q \in Requests : ~Idle(q) => script.novo \notin req[q].restantes

\* The photo no longer has the file that is about to be removed.
ReplacedInv ==
  Rodando("remover") /\ Existe(script.alvo) => fotos[script.alvo].arquivo # script.original

\* The file of a photo that a deletion has loaded is still to be removed, is
\* removed, or is another one by now.
LoadedInv ==
  \A q \in Requests : ~Idle(q) => \A f \in req[q].fotos :
    /\ fotos[f].vida # "novo"
    /\ \/ fotos[f].arquivo \in req[q].restantes \cup {Nenhum}
       \/ bucket[fotos[f].arquivo] = "removido"
       \/ <<q, f>> \in trocadas

ScriptInv ==
  IInv /\ ScriptTypeOK /\ CopiedInv /\ ListedInv /\ StoredInv /\ ReplacedInv /\ LoadedInv

-----------------------------------------------------------------------------
(* Requests.                                                               *)

\* What a step of a request does not do.
BucketFrame ==
  \A x \in Arquivos : /\ bucket[x] # "novo" => bucket'[x] # "novo"
                      /\ bucket[x] = "removido" => bucket'[x] = "removido"
PhotosFrame ==
  \A f \in Fotos :
    \/ /\ fotos[f].vida = "novo" /\ fotos'[f].vida # "novo"
       /\ \E q \in Requests : /\ ~Idle(q) /\ fotos'[f].arquivo = req[q].arquivo
                              /\ fotos'[f].url = req[q].url
    \/ /\ fotos'[f].arquivo = fotos[f].arquivo /\ fotos'[f].url \in {fotos[f].url, Nenhum}
       /\ fotos'[f].vida \in {fotos[f].vida, "removido"}
GoesOn(q) ==
  /\ ~Idle(q) /\ req'[q].fotos = req[q].fotos /\ req'[q].restantes \subseteq req[q].restantes
  /\ \A x \in req[q].restantes \ req'[q].restantes : bucket'[x] = "removido"
  /\ \/ req'[q].arquivo = req[q].arquivo /\ req'[q].url = req[q].url
     \/ bucket[req'[q].arquivo] = "novo" /\ req'[q].url = req'[q].arquivo
Begins(q) ==
  /\ req'[q].arquivo = Nenhum /\ (req'[q].op = "url" \/ req'[q].url = Nenhum)
  /\ req'[q].restantes \subseteq {fotos[f].arquivo : f \in Fotos}
  /\ \A f \in req'[q].fotos :
       fotos[f].vida = "existe" /\ fotos[f].arquivo \in req'[q].restantes \cup {Nenhum}
RequestsFrame == \A q \in Requests : req'[q] # Nenhum => GoesOn(q) \/ (Idle(q) /\ Begins(q))

Frame == BucketFrame /\ PhotosFrame /\ RequestsFrame

\* The requests that a step of q leaves alone go on.
LEMMA OthersGoOn ==
  ASSUME IInv, NEW q \in Requests, \A p \in Requests : p # q => req'[p] = req[p],
         req'[q] # Nenhum => GoesOn(q) \/ (Idle(q) /\ Begins(q))
  PROVE  RequestsFrame
  BY DEF RequestsFrame, GoesOn, Idle

\* The first access of a request.
LEMMA StartFrame ==
  ASSUME IInv, NEW q \in Requests, Idle(q), NEW op, NEW pc, NEW a,
         NEW fs \in SUBSET Fotos, \A f \in fs : Existe(f),
         NEW u, op = "url" \/ u = Nenhum,
         Start(q, op, pc, a, fs, ArquivosDe(fs), u), UNCHANGED <<albuns, fotos, bucket>>
  PROVE  Frame
<1>1. BucketFrame /\ PhotosFrame
  BY DEF BucketFrame, PhotosFrame
<1>2. /\ req'[q].arquivo = Nenhum /\ req'[q].fotos = fs /\ req'[q].restantes = ArquivosDe(fs)
      /\ req'[q].op = op /\ req'[q].url = u
      /\ \A p \in Requests : p # q => req'[p] = req[p]
  BY DEF Start, IInv, TypeOK
<1>3. Begins(q)
  BY <1>2 DEF Begins, ArquivosDe, Existe
<1> QED BY <1>1, <1>2, <1>3, OthersGoOn DEF Frame

\* The last access of a request that removes rows, or nothing.
LEMMA EndFrame ==
  ASSUME IInv, NEW q \in Requests, req' = [req EXCEPT ![q] = Nenhum], bucket' = bucket,
         NEW fs \in SUBSET Fotos, fotos' = Removed(fs)
  PROVE  Frame
<1>1. req'[q] = Nenhum /\ \A p \in Requests : p # q => req'[p] = req[p]
  BY DEF IInv, TypeOK
<1>2. PhotosFrame
  BY DEF PhotosFrame, Removed, IInv, TypeOK, Foto
<1> QED BY <1>1, <1>2, OthersGoOn DEF Frame, BucketFrame

LEMMA NextFrame ==
  ASSUME IInv, Next
  PROVE  Frame
<1>1. ASSUME NEW a \in Albuns, CreateAlbum(a) PROVE Frame
  BY <1>1 DEF CreateAlbum, Frame, BucketFrame, PhotosFrame, RequestsFrame, GoesOn, Idle
<1>2. ArquivosDe({}) = {}
  BY DEF ArquivosDe
<1>3. ASSUME NEW q \in Requests, NEW a \in Albuns, NEW u \in Arquivos \cup {Nenhum},
             UploadFoto(q, a) \/ AddFotoByUrl(q, a, u)
      PROVE  Frame
  BY <1>2, <1>3, StartFrame DEF UploadFoto, AddFotoByUrl
<1>4. ASSUME NEW q \in Requests, NEW a \in Albuns, DeleteAlbum(q, a) PROVE Frame
  BY <1>4, StartFrame DEF DeleteAlbum, FotosDe, Existe
<1>5. ASSUME NEW q \in Requests, NEW f \in Fotos, DeleteFoto(q, f) PROVE Frame
  BY <1>5, StartFrame DEF DeleteFoto, Existe
<1>6. ASSUME NEW q \in Requests, NEW f \in Fotos, RepoAddFoto(q, f) PROVE Frame
  <2>1. /\ req'[q] = Nenhum /\ \A p \in Requests : p # q => req'[p] = req[p]
        /\ fotos[f].vida = "novo" /\ fotos'[f].arquivo = req[q].arquivo /\ ~Idle(q)
        /\ fotos'[f].url = req[q].url /\ fotos'[f].vida = "existe"
        /\ \A g \in Fotos : g # f => fotos'[g] = fotos[g]
    BY <1>6 DEF RepoAddFoto, IInv, TypeOK, At, Idle
  <2>2. PhotosFrame
    BY <2>1 DEF PhotosFrame
  <2> QED BY <1>6, <2>1, <2>2, OthersGoOn DEF Frame, BucketFrame, RepoAddFoto
<1>7. ASSUME NEW q \in Requests, NEW x \in Arquivos, StoreFile(q, x) \/ RemoveFile(q, x)
      PROVE  Frame
  <2>1. /\ req[q] \in Request /\ ~Idle(q) /\ UNCHANGED fotos
        /\ bucket \in [Arquivos -> Vida]
        /\ \A p \in Requests : p # q => req'[p] = req[p]
    BY <1>7, NenhumAssumption DEF StoreFile, RemoveFile, IInv, TypeOK, At, Idle
  <2>2. GoesOn(q) /\ BucketFrame
    <3>1. CASE StoreFile(q, x)
      <4>1. /\ bucket[x] = "novo" /\ bucket' = [bucket EXCEPT ![x] = "existe"]
            /\ req' = [req EXCEPT ![q] = [req[q] EXCEPT !.pc = "banco", !.url = x, !.arquivo = x]]
        BY <3>1, <2>1 DEF StoreFile, BuildPath, IInv, TypeOK
      <4>2. /\ req'[q].fotos = req[q].fotos /\ req'[q].restantes = req[q].restantes
            /\ req'[q].arquivo = x /\ req'[q].url = x
        BY <2>1, <4>1 DEF IInv, TypeOK, Request
      <4> QED BY <2>1, <4>1, <4>2 DEF GoesOn, BucketFrame
    <3>2. CASE RemoveFile(q, x)
      <4>1. /\ bucket' = [bucket EXCEPT ![x] = "removido"]
            /\ req' = [req EXCEPT ![q] = [req[q] EXCEPT !.restantes = @ \ {x}]]
        BY <3>2, <2>1 DEF RemoveFile
      <4>2. /\ req'[q].fotos = req[q].fotos /\ req'[q].restantes = req[q].restantes \ {x}
            /\ req'[q].arquivo = req[q].arquivo /\ req'[q].url = req[q].url
        BY <2>1, <4>1 DEF IInv, TypeOK, Request
      <4> QED BY <2>1, <4>1, <4>2 DEF GoesOn, BucketFrame
    <3> QED BY <1>7, <3>1, <3>2
  <2> QED BY <2>1, <2>2, OthersGoOn DEF Frame, PhotosFrame
<1>8. ASSUME NEW q \in Requests, RepoDeleteFoto(q) PROVE Frame
  BY <1>8, EndFrame DEF RepoDeleteFoto, At, IInv, TypeOK, Request
<1>9. ASSUME NEW q \in Requests, RepoDeleteAlbum(q) PROVE Frame
  <2>1. AlbumRows(q) \in SUBSET Fotos
    BY <1>9 DEF RepoDeleteAlbum, At, IInv, TypeOK, Request, AlbumRows, FotosDe
  <2> QED BY <1>9, <2>1, EndFrame DEF RepoDeleteAlbum
<1>10. ASSUME NEW q \in Requests, RequestEnds(q) PROVE Frame
  <2>1. req'[q] = Nenhum /\ \A p \in Requests : p # q => req'[p] = req[p]
    BY <1>10 DEF RequestEnds, IInv, TypeOK
  <2> QED BY <1>10, <2>1, OthersGoOn DEF Frame, BucketFrame, PhotosFrame, RequestEnds
<1> QED BY <1>1, <1>3, <1>4, <1>5, <1>6, <1>7, <1>8, <1>9, <1>10 DEF Next

\* A file that is condemned stays so.
LEMMA CondemnedStays ==
  ASSUME IInv, Frame, NEW x \in Arquivos, NEW fs, Condemned(x, fs)
  PROVE  Condemned(x, fs)'
<1>1. bucket'[x] # "novo"
  BY DEF Frame, BucketFrame, Condemned
<1>2. \A f \in Fotos : fotos'[f].arquivo = x => fotos[f].arquivo = x
  BY DEF Frame, PhotosFrame, Condemned, Idle
<1>3. \A q \in Requests : req'[q] # Nenhum => req'[q].arquivo # x
  BY NenhumAssumption DEF Frame, RequestsFrame, GoesOn, Begins, Condemned, Idle
<1> QED BY <1>1, <1>2, <1>3 DEF Condemned

\* A file that is known, or listed, stays so.
CopiedFrame == \A x \in copiadas : x \in copiadas' \/ bucket'[x] = "removido"

LEMMA KnownStays ==
  ASSUME CopiedFrame, BucketFrame, NEW x \in Arquivos, Known(x)
  PROVE  Known(x)'
  BY DEF CopiedFrame, BucketFrame, Known

LEMMA ListedStays ==
  ASSUME IInv, Frame, CopiedFrame, NEW f \in Fotos, NEW x \in Arquivos, Listed(f, x)
  PROVE  Listed(f, x)'
<1>1. fotos'[f].vida # "novo" /\ bucket'[x] # "novo"
  BY DEF Frame, PhotosFrame, BucketFrame, Listed
<1>2. Known(x)' \/ Condemned(x, {f})'
  BY KnownStays, CondemnedStays DEF Frame, Listed
<1> QED BY <1>1, <1>2 DEF Listed

\* Where the script is, and what it holds.
LEMMA ScriptHolds ==
  ASSUME ScriptTypeOK, script # Nenhum
  PROVE  /\ script \in Rodada
         /\ \A t \in script.fila : t[1] \in Fotos /\ t[2] \in Arquivos
         /\ script.pc # "proxima" => script.alvo \in Fotos /\ script.original \in Arquivos
         /\ script.pc \in {"gravar", "remover"} => script.novo \in Arquivos
  BY DEF ScriptTypeOK, Rodada

\* What deletions know of their photos.
LEMMA LoadedStays ==
  ASSUME IInv, IInv', LoadedInv, Frame,
         \A t \in trocadas : req'[t[1]] # Nenhum => t \in trocadas'
  PROVE  LoadedInv'
<1> SUFFICES ASSUME NEW q \in Requests, req'[q] # Nenhum, NEW f \in req'[q].fotos
             PROVE  /\ fotos'[f].vida # "novo"
                    /\ \/ fotos'[f].arquivo \in req'[q].restantes \cup {Nenhum}
                       \/ bucket'[fotos'[f].arquivo] = "removido"
                       \/ <<q, f>> \in trocadas'
  BY DEF LoadedInv, Idle
<1>1. f \in Fotos /\ fotos[f].arquivo \in Arquivos \cup {Nenhum}
  BY DEF IInv, TypeOK, Request, Foto
<1>2. CASE GoesOn(q)
  <2>1. /\ ~Idle(q) /\ f \in req[q].fotos /\ fotos[f].vida # "novo"
        /\ \/ fotos[f].arquivo \in req[q].restantes \cup {Nenhum}
           \/ bucket[fotos[f].arquivo] = "removido"
           \/ <<q, f>> \in trocadas
    BY <1>2 DEF GoesOn, ScriptInv, LoadedInv
  <2>2. fotos'[f].arquivo = fotos[f].arquivo /\ fotos'[f].vida # "novo"
    BY <1>1, <2>1 DEF Frame, PhotosFrame
  <2>3. CASE fotos[f].arquivo \in req[q].restantes \cup {Nenhum}
    BY <1>2, <2>2, <2>3 DEF GoesOn
  <2>4. CASE bucket[fotos[f].arquivo] = "removido"
    BY <1>1, <2>2, <2>4 DEF Frame, BucketFrame
  <2>5. CASE <<q, f>> \in trocadas
    BY <2>2, <2>5
  <2> QED BY <2>1, <2>3, <2>4, <2>5
<1>3. CASE Begins(q)
  <2>1. fotos[f].vida = "existe" /\ fotos[f].arquivo \in req'[q].restantes \cup {Nenhum}
    BY <1>3 DEF Begins
  <2>2. fotos'[f].arquivo = fotos[f].arquivo /\ fotos'[f].vida # "novo"
    BY <1>1, <2>1 DEF Frame, PhotosFrame
  <2> QED BY <2>1, <2>2
<1> QED BY <1>2, <1>3 DEF Frame, RequestsFrame

\* A request that begins with a URL makes it known; the others pass on what they
\* have.
LEMMA CopiedStays ==
  ASSUME IInv, IInv', ScriptTypeOK, CopiedInv, Frame, RequestStep
  PROVE  CopiedFrame /\ CopiedInv'
<1>1. /\ bucket \in [Arquivos -> Vida] /\ bucket' \in [Arquivos -> Vida]
      /\ \A f \in Fotos : fotos[f].url \in Arquivos \cup {Nenhum}
      /\ \A q \in Requests : req[q] # Nenhum => req[q].url \in Arquivos \cup {Nenhum}
      /\ \A q \in Requests : req'[q] # Nenhum => req'[q].url \in Arquivos \cup {Nenhum}
  BY DEF IInv, TypeOK, Foto, Request
<1>2. \A q \in Requests : req'[q] # Nenhum /\ req'[q].url # Nenhum =>
        bucket'[req'[q].url] # "novo"
  BY DEF IInv, TypeOK
<1>3. CopiedFrame
  BY <1>1 DEF CopiedFrame, RequestStep, Frame, BucketFrame, ScriptTypeOK, CopiedInv, Vida
<1>4. ASSUME NEW f \in Fotos, NEW x, x = fotos'[f].url, x # Nenhum
      PROVE  Known(x)' \/ fotos'[f].arquivo = x
  <2>1. CASE fotos'[f].arquivo = fotos[f].arquivo /\ fotos'[f].url = fotos[f].url
    BY <1>1, <1>3, <1>4, <2>1, KnownStays DEF CopiedInv, Frame
  <2>2. ASSUME NEW q \in Requests, ~Idle(q), fotos'[f].arquivo = req[q].arquivo,
               x = req[q].url
        PROVE  Known(x)' \/ fotos'[f].arquivo = x
    BY <1>1, <1>3, <1>4, <2>2, KnownStays DEF CopiedInv, Frame, Idle
  <2> QED BY <1>4, <2>1, <2>2 DEF Frame, PhotosFrame
<1>5. ASSUME NEW q \in Requests, req'[q] # Nenhum, NEW x, x = req'[q].url, x # Nenhum
      PROVE  Known(x)' \/ req'[q].arquivo = x
  <2>1. CASE GoesOn(q)
    BY <1>1, <1>3, <1>5, <2>1, KnownStays DEF CopiedInv, Frame, GoesOn, Idle
  <2>2. CASE Begins(q)
    <3>1. req'[q].op = "url" /\ x \in Arquivos /\ bucket'[x] \in {"existe", "removido"}
      BY <1>1, <1>2, <1>5, <2>2 DEF Begins, Vida
    <3> QED BY <1>5, <3>1 DEF RequestStep, Known
  <2> QED BY <1>5, <2>1, <2>2 DEF Frame, RequestsFrame
<1> QED BY <1>3, <1>4, <1>5 DEF CopiedInv, RequestStep

LEMMA RequestKeeps ==
  ASSUME ScriptInv, RequestStep
  PROVE  ScriptInv'
<1>1. IInv /\ IInv' /\ Frame /\ script' = script
      /\ trocadas' = {t \in trocadas : req'[t[1]] # Nenhum}
  BY NextIInv, NextFrame DEF ScriptInv, RequestStep
<1>2. ScriptTypeOK'
  <2>1. ASSUME NEW t \in trocadas'
        PROVE  t \in Requests \X Fotos /\ req'[t[1]] # Nenhum /\ t[2] \in req'[t[1]].fotos
    BY <2>1, <1>1
    DEF ScriptInv, ScriptTypeOK, Frame, RequestsFrame, GoesOn, Idle
  <2>2. copiadas' \subseteq Arquivos
    BY DEF RequestStep
  <2> QED BY <1>1, <2>1, <2>2 DEF ScriptInv, ScriptTypeOK, IInv, Idle
<1>0. CopiedFrame /\ CopiedInv'
  BY <1>1, CopiedStays DEF ScriptInv
<1>3. ListedInv'
  <2> SUFFICES ASSUME script # Nenhum PROVE ListedInv'
    BY <1>1 DEF ListedInv
  <2>1. ASSUME NEW t \in script.fila PROVE Listed(t[1], t[2])'
    BY <1>0, <1>1, <2>1, ListedStays, ScriptHolds DEF ScriptInv, ListedInv
  <2>2. ASSUME script.pc # "proxima" PROVE Listed(script.alvo, script.original)'
    BY <1>0, <1>1, <2>2, ListedStays, ScriptHolds DEF ScriptInv, ListedInv
  <2> QED BY <1>1, <2>1, <2>2 DEF ListedInv
<1>4. StoredInv'
  <2> SUFFICES ASSUME Rodando("gravar") PROVE StoredInv'
    BY <1>1 DEF StoredInv, Rodando
  <2>1. script.novo \in Arquivos /\ Condemned(script.novo, {})
    BY ScriptHolds DEF ScriptInv, StoredInv, Rodando
  <2>2. Condemned(script.novo, {})'
    BY <2>1, <1>1, CondemnedStays
  <2>3. ASSUME NEW q \in Requests, req'[q] # Nenhum PROVE script.novo \notin req'[q].restantes
    BY <2>1, <2>3, <1>1
    DEF ScriptInv, StoredInv, Frame, RequestsFrame, GoesOn, Begins, Condemned, Idle
  <2>4. /\ script.novo # script.original
        /\ \A t \in script.fila : t[2] # script.novo
    BY DEF ScriptInv, StoredInv
  <2> QED BY <1>1, <2>2, <2>3, <2>4 DEF StoredInv, Idle
<1>5. ReplacedInv'
  <2> SUFFICES ASSUME Rodando("remover"), Existe(script.alvo)'
               PROVE  fotos'[script.alvo].arquivo # script.original
    BY <1>1 DEF ReplacedInv, Rodando
  <2>1. script.alvo \in Fotos /\ fotos[script.alvo].vida # "novo"
    BY ScriptHolds DEF ScriptInv, ListedInv, Listed, Rodando
  <2> QED
    BY <2>1, <1>1 DEF ScriptInv, ReplacedInv, Frame, PhotosFrame, Existe
<1>6. LoadedInv'
  BY <1>1, LoadedStays DEF ScriptInv
<1> QED BY <1>0, <1>1, <1>2, <1>3, <1>4, <1>5, <1>6 DEF ScriptInv

-----------------------------------------------------------------------------
(* The script.                                                             *)

\* A step of the script that leaves the tables alone and takes no path twice.
LEMMA BucketStep ==
  ASSUME IInv, BucketFrame, bucket' \in [Arquivos -> Vida], UNCHANGED <<albuns, fotos, req>>
  PROVE  IInv' /\ Frame
<1>1. TypeOK'
  BY DEF IInv, TypeOK, Existe, BucketFrame, Request, Foto
<1>2. PhotosHaveAnAlbum' /\ FilesAreNotShared' /\ UploadsDiffer'
  BY DEF IInv, PhotosHaveAnAlbum, FilesAreNotShared, UploadsDiffer, Existe
<1>3. FilesOfLoaded'
  BY FilesStayLoaded DEF BucketFrame
<1>4. Frame
  BY DEF Frame, PhotosFrame, RequestsFrame, GoesOn, Idle
<1> QED BY <1>1, <1>2, <1>3, <1>4 DEF IInv

\* Such a step, given what it makes of the script itself.
LEMMA BucketKeeps ==
  ASSUME ScriptInv, BucketFrame, bucket' \in [Arquivos -> Vida],
         UNCHANGED <<albuns, fotos, req, trocadas>>,
         CopiedFrame, copiadas' \subseteq copiadas,
         script' \in Rodada \cup {Nenhum},
         script' # Nenhum =>
           /\ \A t \in script'.fila : t \in Fotos \X Arquivos /\ Listed(t[1], t[2])
           /\ script'.pc # "proxima" =>
                /\ script'.alvo \in Fotos /\ script'.original \in Arquivos
                /\ Listed(script'.alvo, script'.original)
           /\ script'.pc \in {"gravar", "remover"} => script'.novo \in Arquivos,
         StoredInv', ReplacedInv'
  PROVE  ScriptInv'
<1>1. IInv' /\ Frame
  BY BucketStep DEF ScriptInv
<1>2. ScriptTypeOK'
  BY <1>1 DEF ScriptInv, ScriptTypeOK, IInv, Idle
<1>3. ListedInv'
  BY <1>1, ListedStays DEF ScriptInv, ListedInv
<1>0. CopiedInv'
  <2>1. \A x \in Arquivos : Known(x) => Known(x)'
    BY KnownStays
  <2>2. /\ \A f \in Fotos : fotos[f].url \in Arquivos \cup {Nenhum}
        /\ \A q \in Requests : req[q] # Nenhum => req[q].url \in Arquivos \cup {Nenhum}
        /\ copiadas \subseteq Arquivos
    BY DEF ScriptInv, IInv, TypeOK, Foto, Request, ScriptTypeOK
  <2> QED BY <2>1, <2>2 DEF ScriptInv, CopiedInv, BucketFrame
<1>4. LoadedInv'
  BY <1>1, LoadedStays DEF ScriptInv
<1> QED BY <1>0, <1>1, <1>2, <1>3, <1>4 DEF ScriptInv

LEMMA StartsKeeps ==
  ASSUME ScriptInv, NEW remover \in BOOLEAN, ScriptStarts(remover)
  PROVE  ScriptInv'
<1>1. BucketFrame /\ bucket' \in [Arquivos -> Vida] /\ UNCHANGED <<albuns, fotos, req, trocadas, copiadas>>
  BY DEF ScriptStarts, vars, BucketFrame, ScriptInv, IInv, TypeOK
<1>2. /\ script'.fila = {<<f, fotos[f].url>> :
                           f \in {g \in Fotos : Existe(g) /\ fotos[g].url # Nenhum}}
      /\ script'.pc = "proxima"
  BY DEF ScriptStarts
<1>3. ASSUME NEW t \in script'.fila PROVE t \in Fotos \X Arquivos /\ Listed(t[1], t[2])
  <2>1. PICK f \in Fotos : t = <<f, fotos[f].url>> /\ Existe(f) /\ fotos[f].url # Nenhum
    BY <1>2, <1>3
  <2>2. fotos[f].url \in Arquivos /\ bucket[fotos[f].url] # "novo"
    BY <2>1 DEF ScriptInv, IInv, TypeOK, Foto
  <2>3. CASE Known(fotos[f].url)
    BY <2>1, <2>2, <2>3 DEF Listed, Existe
  <2>4. CASE fotos[f].arquivo = fotos[f].url
    <3>1. Condemned(fotos[f].url, {f})
      BY <2>1, <2>2, <2>4 DEF ScriptInv, IInv, FilesAreNotShared, Condemned
    <3> QED BY <2>1, <2>2, <3>1 DEF Listed, Existe
  <2> QED BY <2>1, <2>3, <2>4 DEF ScriptInv, CopiedInv
<1>4. script' \in Rodada
  BY <1>3 DEF ScriptStarts, Rodada
<1>5. StoredInv' /\ ReplacedInv'
  BY <1>2 DEF StoredInv, ReplacedInv, Rodando
<1>6. CopiedFrame /\ copiadas' \subseteq copiadas
  BY <1>1 DEF CopiedFrame
<1> QED BY <1>1, <1>2, <1>3, <1>4, <1>5, <1>6, BucketKeeps

LEMMA TakesKeeps ==
  ASSUME ScriptInv, NEW f \in Fotos, NEW x \in Arquivos, NEW ganho \in BOOLEAN,
         ScriptTakes(f, x, ganho)
  PROVE  ScriptInv'
<1>1. BucketFrame /\ bucket' \in [Arquivos -> Vida] /\ UNCHANGED <<albuns, fotos, req, trocadas, copiadas>>
  BY DEF ScriptTakes, vars, BucketFrame, ScriptInv, IInv, TypeOK
<1>2. script \in Rodada /\ script.pc = "proxima" /\ <<f, x>> \in script.fila
  BY ScriptHolds DEF ScriptTakes, Rodando, ScriptInv
<1>3. Listed(f, x) /\ \A t \in script.fila : t \in Fotos \X Arquivos /\ Listed(t[1], t[2])
  BY <1>2, RodadaAssumption DEF ScriptInv, ListedInv, Rodada
<1>4. \/ script' = [script EXCEPT !.pc = "enviar", !.fila = @ \ {<<f, x>>},
                                  !.alvo = f, !.original = x]
      \/ script' = [script EXCEPT !.fila = @ \ {<<f, x>>}]
  BY DEF ScriptTakes
<1>5. /\ script' \in Rodada /\ script'.fila \subseteq script.fila
      /\ script'.pc = "proxima" \/ (script'.pc = "enviar" /\ script'.alvo = f /\ script'.original = x)
  BY <1>2, <1>4 DEF Rodada
<1>6. StoredInv' /\ ReplacedInv'
  BY <1>5 DEF StoredInv, ReplacedInv, Rodando
<1>7. CopiedFrame /\ copiadas' \subseteq copiadas
  BY <1>1 DEF CopiedFrame
<1> QED BY <1>1, <1>3, <1>5, <1>6, <1>7, BucketKeeps

LEMMA StoresKeeps ==
  ASSUME ScriptInv, NEW y \in Arquivos, ScriptStores(y)
  PROVE  ScriptInv'
<1>1. /\ script \in Rodada /\ script.pc = "enviar" /\ script # Nenhum
      /\ bucket \in [Arquivos -> Vida] /\ bucket[y] = "novo"
      /\ bucket' = [bucket EXCEPT ![y] = "existe"]
      /\ UNCHANGED <<albuns, fotos, req, trocadas, copiadas>>
  BY ScriptHolds DEF ScriptStores, NewPath, BuildPath, Rodando, ScriptInv, IInv, TypeOK
<1>2. BucketFrame /\ bucket' \in [Arquivos -> Vida] /\ bucket'[y] = "existe"
  BY <1>1 DEF BucketFrame, Vida
<1>3. /\ script' \in Rodada /\ script'.fila = script.fila /\ script'.pc = "gravar"
      /\ script'.alvo = script.alvo /\ script'.original = script.original /\ script'.novo = y
  BY <1>1 DEF ScriptStores, Rodada
<1>4. /\ script.alvo \in Fotos /\ script.original \in Arquivos
      /\ Listed(script.alvo, script.original)
      /\ \A t \in script.fila : t \in Fotos \X Arquivos /\ Listed(t[1], t[2])
  BY <1>1, ScriptHolds DEF ScriptInv, ListedInv, Rodada
<1>5. y # script.original /\ \A t \in script.fila : t[2] # y
  BY <1>1, <1>4 DEF Listed
<1>6. \A q \in Requests : req[q] # Nenhum => y \notin req[q].restantes
  BY <1>1 DEF ScriptInv, IInv, FilesOfLoaded, Condemned
<1>7. Condemned(y, {})'
  BY <1>1, <1>2, NenhumAssumption DEF Condemned, ScriptInv, IInv, TypeOK
<1>8. StoredInv' /\ ReplacedInv'
  BY <1>1, <1>3, <1>5, <1>6, <1>7 DEF StoredInv, ReplacedInv, Rodando, Idle
<1>9. CopiedFrame /\ copiadas' \subseteq copiadas
  BY <1>1 DEF CopiedFrame
<1> QED BY <1>1, <1>2, <1>3, <1>4, <1>8, <1>9, BucketKeeps

LEMMA NextRowHolds ==
  ASSUME script \in Rodada
  PROVE  NextRow \in Rodada /\ NextRow.fila = script.fila /\ NextRow.pc = "proxima"
  BY DEF NextRow, Rodada

LEMMA RemovesKeeps ==
  ASSUME ScriptInv, ScriptRemoves
  PROVE  ScriptInv'
<1>1. /\ script \in Rodada /\ script.pc = "remover" /\ script # Nenhum
      /\ bucket \in [Arquivos -> Vida]
      /\ bucket' = [bucket EXCEPT ![script.original] = "removido"]
      /\ UNCHANGED <<albuns, fotos, req, trocadas>> /\ script' = NextRow
      /\ copiadas' = copiadas \ {script.original}
  BY ScriptHolds DEF ScriptRemoves, Rodando, ScriptInv, IInv, TypeOK
<1>2. BucketFrame /\ bucket' \in [Arquivos -> Vida]
  BY <1>1 DEF BucketFrame, Vida
<1>6. CopiedFrame /\ copiadas' \subseteq copiadas
  <2>1. script.original \in Arquivos
    BY <1>1, ScriptHolds DEF ScriptInv
  <2> QED BY <1>1, <2>1 DEF CopiedFrame
<1>3. \A t \in script.fila : t \in Fotos \X Arquivos /\ Listed(t[1], t[2])
  BY <1>1 DEF ScriptInv, ListedInv, Rodada
<1>4. script' \in Rodada /\ script'.fila = script.fila /\ script'.pc = "proxima"
  BY <1>1, NextRowHolds
<1>5. StoredInv' /\ ReplacedInv'
  BY <1>4 DEF StoredInv, ReplacedInv, Rodando
<1> QED BY <1>1, <1>2, <1>3, <1>4, <1>5, <1>6, BucketKeeps

LEMMA EndsKeeps ==
  ASSUME ScriptInv, ScriptEnds
  PROVE  ScriptInv'
<1>1. BucketFrame /\ bucket' \in [Arquivos -> Vida] /\ UNCHANGED <<albuns, fotos, req, trocadas>>
      /\ script' = Nenhum /\ copiadas' = copiadas
  BY DEF ScriptEnds, vars, BucketFrame, ScriptInv, IInv, TypeOK
<1>2. StoredInv' /\ ReplacedInv'
  BY <1>1 DEF StoredInv, ReplacedInv, Rodando
<1>3. CopiedFrame /\ copiadas' \subseteq copiadas
  BY <1>1 DEF CopiedFrame
<1> QED BY <1>1, <1>2, <1>3, BucketKeeps

\* The UPDATE: the photo, if it is still there, gets a file that nobody has.
LEMMA UpdatesKeeps ==
  ASSUME ScriptInv, ScriptUpdates
  PROVE  ScriptInv'
<1> DEFINE f == script.alvo
           y == script.novo
<1>1. /\ script \in Rodada /\ script.pc = "gravar" /\ script # Nenhum
      /\ f \in Fotos /\ y \in Arquivos /\ y # Nenhum /\ script.original \in Arquivos
      /\ UNCHANGED <<albuns, bucket, req, copiadas>>
      /\ fotos \in [Fotos -> Foto] /\ IInv
  BY ScriptHolds, NenhumAssumption DEF ScriptUpdates, Rodando, ScriptInv, IInv, TypeOK
<1>2. /\ Condemned(y, {}) /\ y # script.original
      /\ \A t \in script.fila : t \in Fotos \X Arquivos /\ t[2] # y /\ Listed(t[1], t[2])
      /\ \A q \in Requests : ~Idle(q) => y \notin req[q].restantes
      /\ Listed(f, script.original)
  BY <1>1 DEF ScriptInv, StoredInv, ListedInv, Rodando, Rodada
<1>3. /\ fotos' \in [Fotos -> Foto]
      /\ \A g \in Fotos : fotos'[g].vida = fotos[g].vida /\ fotos'[g].album = fotos[g].album
      /\ \A g \in Fotos : fotos'[g].arquivo = IF g = f /\ Existe(f) THEN y ELSE fotos[g].arquivo
      /\ \A g \in Fotos : fotos'[g].url = IF g = f /\ Existe(f) THEN y ELSE fotos[g].url
  <2>1. CASE Existe(f)
    <3>1. fotos' = [fotos EXCEPT ![f] = [fotos[f] EXCEPT !.url = y, !.arquivo = y]]
      BY <1>1, <2>1 DEF ScriptUpdates
    <3>2. [fotos[f] EXCEPT !.url = y, !.arquivo = y] \in Foto
      BY <1>1 DEF Foto
    <3> QED BY <1>1, <2>1, <3>1, <3>2 DEF Foto
  <2>2. CASE ~Existe(f)
    BY <1>1, <2>2 DEF ScriptUpdates
  <2> QED BY <2>1, <2>2
<1>4. /\ trocadas \subseteq trocadas'
      /\ Existe(f) => \A q \in Requests : ~Idle(q) /\ f \in req[q].fotos => <<q, f>> \in trocadas'
      /\ \A t \in trocadas' \ trocadas : t \in Requests \X Fotos /\ ~Idle(t[1]) /\ t[2] \in req[t[1]].fotos
  BY <1>1 DEF ScriptUpdates
<1>5. /\ script' \in Rodada /\ script'.fila = script.fila
      /\ \/ script'.pc = "proxima"
         \/ /\ script'.pc = "remover" /\ script'.alvo = f
            /\ script'.original = script.original /\ script'.novo = y
  <2>1. CASE script' = NextRow
    BY <1>1, <2>1, NextRowHolds
  <2>2. CASE script' = [script EXCEPT !.pc = "remover"]
    BY <1>1, <2>2 DEF Rodada
  <2> QED BY <2>1, <2>2 DEF ScriptUpdates
<1> HIDE DEF f, y
<1>6. ASSUME NEW x \in Arquivos, x # y, NEW g \in Fotos, Listed(g, x) PROVE Listed(g, x)'
  BY <1>1, <1>3, <1>6 DEF Listed, Known, Condemned
<1>0. CopiedInv'
  BY <1>1, <1>3 DEF ScriptInv, CopiedInv, Known
<1>7. IInv'
  <2>1. TypeOK'
    BY <1>1, <1>2, <1>3 DEF IInv, TypeOK, Existe, Condemned
  <2>2. PhotosHaveAnAlbum' /\ UploadsDiffer'
    BY <1>1, <1>3 DEF IInv, PhotosHaveAnAlbum, UploadsDiffer, Existe
  <2>3. FilesAreNotShared'
    BY <1>1, <1>2, <1>3 DEF IInv, FilesAreNotShared, Condemned
  <2>4. ASSUME NEW q \in Requests, req[q] # Nenhum, NEW x \in req[q].restantes
        PROVE  Condemned(x, req[q].fotos)'
    <3>1. x \in Arquivos /\ x # y /\ Condemned(x, req[q].fotos)
      BY <1>1, <1>2, <2>4 DEF IInv, TypeOK, Request, FilesOfLoaded, Idle
    <3> QED BY <1>1, <1>3, <3>1 DEF Condemned
  <2> QED BY <1>1, <2>1, <2>2, <2>3, <2>4 DEF IInv, FilesOfLoaded
<1>8. ScriptTypeOK'
  BY <1>1, <1>4, <1>5, <1>7 DEF ScriptInv, ScriptTypeOK, IInv, Idle
<1>9. ListedInv'
  BY <1>1, <1>2, <1>5, <1>6 DEF ListedInv
<1>10. StoredInv' /\ ReplacedInv'
  BY <1>1, <1>2, <1>3, <1>5 DEF StoredInv, ReplacedInv, Rodando, Existe
<1>11. LoadedInv'
  BY <1>1, <1>3, <1>4 DEF ScriptInv, LoadedInv, IInv, TypeOK, Request, Idle
<1> QED BY <1>0, <1>7, <1>8, <1>9, <1>10, <1>11 DEF ScriptInv

-----------------------------------------------------------------------------
(* The invariant.                                                          *)

LEMMA InitScriptInv == InitScript => ScriptInv
<1> SUFFICES ASSUME InitScript PROVE ScriptInv
  OBVIOUS
<1>1. IInv
  BY InitIInv DEF InitScript
<1>2. \A q \in Requests : Idle(q)
  BY DEF InitScript, Init, Idle
<1>3. ScriptTypeOK
  BY <1>1 DEF InitScript, ScriptTypeOK, IInv
<1>4. CopiedInv /\ ListedInv /\ StoredInv /\ ReplacedInv /\ LoadedInv
  BY <1>2 DEF InitScript, Init, Idle, CopiedInv, ListedInv, StoredInv, ReplacedInv, LoadedInv, Rodando
<1> QED BY <1>1, <1>3, <1>4 DEF ScriptInv

LEMMA NextScriptInv == ScriptInv /\ [NextScript]_varsScript => ScriptInv'
<1> SUFFICES ASSUME ScriptInv, [NextScript]_varsScript PROVE ScriptInv'
  OBVIOUS
<1>1. CASE RequestStep
  BY <1>1, RequestKeeps
<1>2. CASE ScriptStep
  BY <1>2, StartsKeeps, TakesKeeps, StoresKeeps, UpdatesKeeps, RemovesKeeps, EndsKeeps
  DEF ScriptStep
<1>3. CASE UNCHANGED varsScript
  <2>1. UNCHANGED <<albuns, fotos, bucket, req, script, trocadas, copiadas>>
    BY <1>3 DEF varsScript, vars
  <2> QED
    BY <2>1
    DEF ScriptInv, IInv, TypeOK, PhotosHaveAnAlbum, FilesAreNotShared, UploadsDiffer,
        FilesOfLoaded, Condemned, Existe, ScriptTypeOK, ListedInv, StoredInv, ReplacedInv,
        LoadedInv, Rodando, Idle, CopiedInv, Known, Listed
<1> QED BY <1>1, <1>2, <1>3 DEF NextScript

LEMMA ScriptInvariance == SpecScript => []ScriptInv
  BY InitScriptInv, NextScriptInv, PTL DEF SpecScript

\* Albums, photos, files, requests and the script keep their types, and a file
\* that a row or an upload names was stored (galeria_service.py and main of the
\* script).
THEOREM TypeCorrect == SpecScript => []ScriptTypeOK
<1>1. ScriptInv => ScriptTypeOK
  BY DEF ScriptInv
<1> QED BY <1>1, ScriptInvariance, PTL

\* No photo outlives its album, although an upload looks the album up long
\* before it inserts the photo (upload_foto against delete_album).
THEOREM NoPhotoOutlivesItsAlbum == SpecScript => []PhotosHaveAnAlbum
<1>1. ScriptInv => PhotosHaveAnAlbum
  BY DEF ScriptInv, IInv
<1> QED BY <1>1, ScriptInvariance, PTL

\* No two photos share a file (_build_path), uploads in flight included, also
\* when the script gives photos other files.
THEOREM NoSharedFiles == SpecScript => []FilesAreNotShared
<1>1. ScriptInv => FilesAreNotShared
  BY DEF ScriptInv, IInv
<1> QED BY <1>1, ScriptInvariance, PTL

\* Whatever fails or runs at the same time, a photo in the table loses its file only
\* to a request that is deleting it (remove_file in delete_foto and delete_album),
\* or to the script's --remover-originais at another photo that was given the URL
\* of that file (add_foto_by_url): the files the script removes otherwise are no
\* photo's any more.
THEOREM NoPictureTakenFromAnother == SpecScript => OnlyCondemnedPhotosLoseTheirFile
<1> DEFINE Step ==
      \A f \in Fotos :
        /\ Existe(f)
        /\ fotos[f].arquivo # Nenhum
        /\ bucket[fotos[f].arquivo] = "existe"
        /\ bucket'[fotos[f].arquivo] # "existe"
        => \/ \E q \in Requests : req[q] # Nenhum /\ f \in req[q].fotos
           \/ /\ Rodando("remover") /\ script.alvo # f
              /\ script.original = fotos[f].arquivo
              /\ fotos[f].arquivo \in copiadas
<1>1. ScriptInv /\ [NextScript]_varsScript => [Step]_varsScript
  <2> SUFFICES ASSUME ScriptInv, [NextScript]_varsScript, NEW f \in Fotos, Existe(f),
                      fotos[f].arquivo # Nenhum,
                      bucket[fotos[f].arquivo] = "existe",
                      bucket'[fotos[f].arquivo] # "existe"
               PROVE  \/ \E q \in Requests : req[q] # Nenhum /\ f \in req[q].fotos
                      \/ /\ Rodando("remover") /\ script.alvo # f
                         /\ script.original = fotos[f].arquivo
                         /\ fotos[f].arquivo \in copiadas
    OBVIOUS
  <2>1. fotos[f].arquivo \in Arquivos /\ bucket \in [Arquivos -> Vida] /\ IInv
    BY DEF ScriptInv, IInv, TypeOK, Foto
  <2>2. CASE Next
    <3>1. PICK q \in Requests, x \in Arquivos : RemoveFile(q, x) \/ StoreFile(q, x)
      BY <2>1, <2>2
      DEF Next, CreateAlbum, UploadFoto, AddFotoByUrl, DeleteAlbum, DeleteFoto,
          RepoAddFoto, RepoDeleteFoto, RepoDeleteAlbum, RequestEnds
    <3>2. RemoveFile(q, x) /\ x = fotos[f].arquivo
      BY <2>1, <3>1 DEF RemoveFile, StoreFile, BuildPath
    <3> QED BY <2>1, <3>2 DEF RemoveFile, At, IInv, FilesOfLoaded, Condemned
  <2>3. CASE \E y \in Arquivos : ScriptStores(y)
    BY <2>1, <2>3 DEF ScriptStores, NewPath, BuildPath
  <2>4. CASE ScriptRemoves
    <3>1. /\ script # Nenhum /\ script.pc = "remover" /\ Rodando("remover")
          /\ fotos[f].arquivo = script.original
      BY <2>1, <2>4 DEF ScriptRemoves, Rodando
    <3>2. f # script.alvo
      BY <3>1 DEF ScriptInv, ReplacedInv
    <3>3. ~Condemned(script.original, {script.alvo})
      BY <3>1, <3>2 DEF Condemned
    <3> QED BY <3>1, <3>2, <3>3 DEF ScriptInv, ListedInv, Listed, Known
  <2> QED
    BY <2>2, <2>3, <2>4
    DEF NextScript, RequestStep, ScriptStep, varsScript, vars, ScriptStarts, ScriptTakes,
        ScriptUpdates, ScriptEnds
<1> QED BY <1>1, ScriptInvariance, PTL DEF SpecScript, OnlyCondemnedPhotosLoseTheirFile

\* The rows a deletion has loaded go after their files, except for files that the
\* script has put in place since (delete_foto, delete_album).
THEOREM DeletionsCanBeRepeated == SpecScript => RowsOutliveFiles
<1> DEFINE Step ==
      \A q \in Requests, f \in Fotos :
        /\ req[q] # Nenhum /\ req'[q] = Nenhum /\ f \in req[q].fotos
        /\ Existe(f) /\ fotos'[f].vida = "removido" /\ fotos[f].arquivo # Nenhum
        => bucket[fotos[f].arquivo] = "removido" \/ <<q, f>> \in trocadas
<1>1. ScriptInv /\ [NextScript]_varsScript => [Step]_varsScript
  <2> SUFFICES ASSUME ScriptInv, [NextScript]_varsScript,
                      NEW q \in Requests, NEW f \in Fotos,
                      req[q] # Nenhum, req'[q] = Nenhum, f \in req[q].fotos,
                      Existe(f), fotos'[f].vida = "removido", fotos[f].arquivo # Nenhum
               PROVE  bucket[fotos[f].arquivo] = "removido" \/ <<q, f>> \in trocadas
    OBVIOUS
  <2>1. Next
    BY DEF NextScript, RequestStep, ScriptStep, varsScript, vars, ScriptStarts, ScriptTakes,
           ScriptStores, ScriptUpdates, ScriptRemoves, ScriptEnds
  <2>2. fotos' # fotos /\ req \in [Requests -> Request \cup {Nenhum}] /\ fotos \in [Fotos -> Foto]
    BY DEF Existe, ScriptInv, IInv, TypeOK
  <2>3. PICK p \in Requests :
          RepoDeleteFoto(p) \/ RepoDeleteAlbum(p) \/ \E g \in Fotos : RepoAddFoto(p, g)
    BY <2>1, <2>2
    DEF Next, CreateAlbum, UploadFoto, AddFotoByUrl, DeleteAlbum, DeleteFoto, StoreFile,
        RemoveFile, RequestEnds
  <2>4. p = q
    BY <2>2, <2>3 DEF RepoDeleteFoto, RepoDeleteAlbum, RepoAddFoto
  <2>5. req[q].restantes = {}
    <3>1. ASSUME NEW g \in Fotos, RepoAddFoto(q, g) PROVE FALSE
      BY <2>2, <3>1 DEF RepoAddFoto, Existe
    <3> QED BY <2>3, <2>4, <3>1 DEF RepoDeleteFoto, RepoDeleteAlbum
  <2> QED BY <2>5 DEF ScriptInv, LoadedInv, Idle
<1> QED BY <1>1, ScriptInvariance, PTL DEF SpecScript, RowsOutliveFiles
=============================================================================
