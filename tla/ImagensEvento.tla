---------------------------- MODULE ImagensEvento ----------------------------
(***************************************************************************)
(* The image of an event: column eventos.imagem, the files it names in the *)
(* storage bucket, the requests that change it, and the maintenance script *)
(* scripts/otimizar_imagens_existentes.py, which runs beside them on a     *)
(* connection of its own.                                                  *)
(*                                                                         *)
(* A URL of the bucket is its file.  The other columns are left out; the   *)
(* photos of the gallery, over which the script loops too, are in          *)
(* Recompressao.                                                           *)
(***************************************************************************)
EXTENDS Naturals, FiniteSets

CONSTANTS
  Ids,        \* events
  Arquivos,   \* paths in the bucket, each drawn once
  Externa,    \* a URL outside the bucket
  Requests,   \* slots for requests in flight
  MaxCopias,  \* how many files are given to an event not theirs (a bound)
  Nenhum      \* NULL, no request, no script running

Url == Arquivos \cup {Externa}

\* A file: for which event it was stored, is its name *.webp, and (history) how
\* many times the picture has been through optimize_image.
Arquivo == [vida : {"novo", "existe", "removido"}, de : Ids \cup {Nenhum},
            webp : BOOLEAN, vezes : 0..2]

Operation == {"upload", "delete", "update"}

\* A request in flight: its event, the file it removes, the value it writes.
Request == [op : Operation, pc : {"storage", "banco"}, alvo : Ids,
            remove : Url \cup {Nenhum}, novo : Url \cup {Nenhum}]

\* A run of the script: the rows it has listed and not reached, the row it is
\* at, the file it has stored for it, and --remover-originais.
Rodada == [pc : {"proxima", "enviar", "gravar", "remover"}, fila : SUBSET (Ids \X Arquivos),
           alvo : Ids \cup {Nenhum}, original : Arquivos \cup {Nenhum},
           novo : Arquivos \cup {Nenhum}, remover : BOOLEAN]

ASSUME NenhumAssumption ==
  /\ Nenhum \notin Url \cup Ids \cup Request \cup Rodada
  /\ Externa \notin Arquivos

VARIABLES
  vivos,    \* events in the table
  imagem,   \* [Ids -> Url or Nenhum]
  bucket,   \* [Arquivos -> Arquivo]
  req,      \* [Requests -> Request or Nenhum]
  script,   \* the run of the script in progress, or Nenhum
  copiadas  \* history: files given as the image of an event they were not stored for

vars == <<vivos, imagem, bucket, req, script, copiadas>>

Idle(q) == req[q] = Nenhum
At(q, pc) == req[q] # Nenhum /\ req[q].pc = pc
Rodando(pc) == script # Nenhum /\ script.pc = pc
Existe(x) == bucket[x].vida = "existe"

\* What a client may put in a body, which takes any string: null, a URL from
\* elsewhere (or of a file that is gone), or that of any file in the bucket.
\* (A POST with an image is the PUT of an event that has none.)
Corpo == {Nenhum, Externa} \cup {x \in Arquivos : Existe(x)}

Init ==
  /\ vivos = Ids
  /\ imagem = [e \in Ids |-> Nenhum]
  /\ bucket = [x \in Arquivos |->
                 [vida |-> "novo", de |-> Nenhum, webp |-> FALSE, vezes |-> 0]]
  /\ req = [q \in Requests |-> Nenhum]
  /\ script = Nenhum
  /\ copiadas = {}

Start(q, op, pc, e, remove, novo) ==
  /\ Idle(q)
  /\ e \in vivos
  /\ req' = [req EXCEPT ![q] = [op |-> op, pc |-> pc, alvo |-> e,
                                remove |-> remove, novo |-> novo]]
  /\ copiadas' = copiadas \cup {x \in Arquivos : novo = x /\ bucket[x].de # e}
  /\ UNCHANGED <<vivos, imagem, bucket, script>>

\* POST /events/{e}/image: the event is read, then the file is stored.
UploadEventImage(q, e) == Start(q, "upload", "storage", e, Nenhum, Nenhum)

\* DELETE /events/{e}/image: nothing to do when the event has none.
DeleteEventImage(q, e) ==
  /\ imagem[e] # Nenhum
  /\ Start(q, "delete", "storage", e, imagem[e], Nenhum)

\* PUT /events/{e} with a key imagem: no write when it is the value read.
UpdateImage(q, e, url) ==
  /\ url # imagem[e]
  /\ url \in Arquivos /\ bucket[url].de # e => Cardinality(copiadas \cup {url}) <= MaxCopias
  /\ Start(q, "update", "banco", e, Nenhum, url)

\* Defective variant: a path made of the file's own name, stored over.
BuildPathReused(x, e) == bucket[x].vida # "removido"

\* _build_path: a path that was never used (a time and eight random digits).
BuildPath(x, e) == bucket[x].vida = "novo"

Stored(e, webp, vezes) == [vida |-> "existe", de |-> e, webp |-> webp, vezes |-> vezes]

\* upload_file: optimised to WebP when that makes it smaller, or else kept under
\* the extension that the client gave it.
StoreFile(q, x) ==
  /\ At(q, "storage") /\ req[q].op = "upload"
  /\ BuildPath(x, req[q].alvo)
  /\ \E otimizada, webp \in BOOLEAN :
       /\ otimizada => webp
       /\ bucket' = [bucket EXCEPT
                       ![x] = Stored(req[q].alvo, webp, IF otimizada THEN 1 ELSE 0)]
  /\ req' = [req EXCEPT ![q].pc = "banco", ![q].novo = x]
  /\ UNCHANGED <<vivos, imagem, script, copiadas>>

\* remove_by_public_url: a URL outside the bucket, or a file that is gone, is no
\* error.
RemoveByPublicUrl(q) ==
  LET x == req[q].remove
  IN  /\ At(q, "storage") /\ req[q].op = "delete"
      /\ bucket' = IF x \in Arquivos THEN [bucket EXCEPT ![x].vida = "removido"] ELSE bucket
      /\ req' = [req EXCEPT ![q].pc = "banco"]
      /\ UNCHANGED <<vivos, imagem, script, copiadas>>

\* The commit: UPDATE of the row by its key, whatever its image is by now.  The
\* request of an event that is gone fails (RequestEnds).
RepoUpdate(q) ==
  /\ At(q, "banco")
  /\ req[q].alvo \in vivos
  /\ imagem' = [imagem EXCEPT ![req[q].alvo] = req[q].novo]
  /\ req' = [req EXCEPT ![q] = Nenhum]
  /\ UNCHANGED <<vivos, bucket, script, copiadas>>

\* DELETE /events/{e}: the file stays in the bucket.
DeleteEvent(e) ==
  /\ e \in vivos
  /\ vivos' = vivos \ {e}
  /\ imagem' = [imagem EXCEPT ![e] = Nenhum]
  /\ UNCHANGED <<bucket, req, script, copiadas>>

\* The request ends where it is: an error of the storage or the database.
RequestEnds(q) ==
  /\ ~Idle(q)
  /\ req' = [req EXCEPT ![q] = Nenhum]
  /\ UNCHANGED <<vivos, imagem, bucket, script, copiadas>>

-----------------------------------------------------------------------------
(* The script, with --apply.                                               *)

\* The SELECT: the events whose image is in the bucket.
ScriptStarts(remover) ==
  /\ script = Nenhum
  /\ script' = [pc |-> "proxima", alvo |-> Nenhum, original |-> Nenhum, novo |-> Nenhum,
                fila |-> {<<e, imagem[e]>> : e \in {i \in Ids : imagem[i] \in Arquivos}},
                remover |-> remover]
  /\ UNCHANGED <<vivos, imagem, bucket, req, copiadas>>

\* Defective variant: WebP files are recompressed as well.
NeedsWorkAlways(x) == TRUE

\* A path that ends in .webp is skipped.
NeedsWork(x) == ~bucket[x].webp

\* A row is skipped; or its file is downloaded and compressed, and left alone
\* when that gains nothing.
ScriptTakes(e, x, ganho) ==
  /\ Rodando("proxima")
  /\ <<e, x>> \in script.fila
  /\ NeedsWork(x) => Existe(x)
  /\ script' = IF NeedsWork(x) /\ ganho
               THEN [script EXCEPT !.pc = "enviar", !.fila = @ \ {<<e, x>>},
                                   !.alvo = e, !.original = x]
               ELSE [script EXCEPT !.fila = @ \ {<<e, x>>}]
  /\ UNCHANGED <<vivos, imagem, bucket, req, copiadas>>

\* The compressed picture is stored under a new path.
ScriptStores(y) ==
  /\ Rodando("enviar")
  /\ BuildPath(y, script.alvo)
  /\ bucket' = [bucket EXCEPT
                  ![y] = Stored(script.alvo, TRUE, bucket[script.original].vezes + 1)]
  /\ script' = [script EXCEPT !.pc = "gravar", !.novo = y]
  /\ UNCHANGED <<vivos, imagem, req, copiadas>>

NextRow == [script EXCEPT !.pc = "proxima", !.alvo = Nenhum, !.original = Nenhum,
                          !.novo = Nenhum]

\* UPDATE eventos SET imagem = ... WHERE id = ...: no row is no error.
ScriptUpdates ==
  LET e == script.alvo
  IN  /\ Rodando("gravar")
      /\ imagem' = IF e \in vivos THEN [imagem EXCEPT ![e] = script.novo] ELSE imagem
      /\ script' = IF script.remover THEN [script EXCEPT !.pc = "remover"] ELSE NextRow
      /\ UNCHANGED <<vivos, bucket, req, copiadas>>

\* --remover-originais.
ScriptRemoves ==
  /\ Rodando("remover")
  /\ bucket' = [bucket EXCEPT ![script.original].vida = "removido"]
  /\ script' = NextRow
  /\ UNCHANGED <<vivos, imagem, req, copiadas>>

\* The script comes to its end, or stops at an error (a file that is gone).
ScriptEnds ==
  /\ script # Nenhum
  /\ script' = Nenhum
  /\ UNCHANGED <<vivos, imagem, bucket, req, copiadas>>

Next ==
  \/ \E q \in Requests, e \in Ids :
       \/ UploadEventImage(q, e)
       \/ DeleteEventImage(q, e)
       \/ \E url \in Corpo : UpdateImage(q, e, url)
  \/ \E q \in Requests :
       \/ \E x \in Arquivos : StoreFile(q, x)
       \/ RemoveByPublicUrl(q)
       \/ RepoUpdate(q)
       \/ RequestEnds(q)
  \/ \E e \in Ids : DeleteEvent(e)
  \/ \E remover \in BOOLEAN : ScriptStarts(remover)
  \/ \E e \in Ids, x \in Arquivos, ganho \in BOOLEAN : ScriptTakes(e, x, ganho)
  \/ \E y \in Arquivos : ScriptStores(y)
  \/ ScriptUpdates \/ ScriptRemoves \/ ScriptEnds

Spec == Init /\ [][Next]_vars

-----------------------------------------------------------------------------
(* Properties.                                                             *)

\* Types; what an event shows was stored for it, or was given in a body.
TypeOK ==
  /\ vivos \subseteq Ids
  /\ imagem \in [Ids -> Url \cup {Nenhum}]
  /\ bucket \in [Arquivos -> Arquivo]
  /\ req \in [Requests -> Request \cup {Nenhum}]
  /\ script \in Rodada \cup {Nenhum}
  /\ copiadas \subseteq Arquivos
  /\ \A e \in Ids : imagem[e] \in Arquivos \ copiadas => bucket[imagem[e]].de = e

\* The file an event shows is taken away only by a request to delete the image
\* of that very event, or by the script when it has replaced that very file:
\* never by what is done to another event; except a file whose URL was given to
\* an event it was not stored for, which goes with the image of either.
ImagesAreNotTakenFromOthers ==
  [][\A e \in Ids :
       /\ imagem[e] \in Arquivos \ copiadas
       /\ Existe(imagem[e])
       /\ bucket'[imagem[e]].vida # "existe"
       => \/ \E q \in Requests :
               req[q] # Nenhum /\ req[q].op = "delete" /\ req[q].alvo = e
          \/ script # Nenhum /\ script.alvo = e /\ script.original = imagem[e]]_vars

\* However often the script is run, and stopped, no picture goes through the
\* lossy compression twice.
CompressedOnce == \A x \in Arquivos : bucket[x].vezes <= 1
=============================================================================
