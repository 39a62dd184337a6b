------------------------- MODULE ImagensEventoProofs -------------------------
(***************************************************************************)
(* Proofs about the images of events (ImagensEvento), for any number of    *)
(* events, files and concurrent requests, and however often the script is  *)
(* run.  The invariant says for which event every file was stored that a   *)
(* row, a request or the script holds, and what the script may compress.   *)
(***************************************************************************)
EXTENDS ImagensEvento, TLAPS

\* Nothing was stored under a path exactly as long as it is of no event.
FreshInv == \A x \in Arquivos : bucket[x].vida = "novo" <=> bucket[x].de = Nenhum

\* A file that event e may hold: it was stored, for e unless it was given by URL.
Tem(x, e) == bucket[x].de \in Ids /\ (x \in copiadas \/ bucket[x].de = e)

\* The files that rows show, and that requests remove or are to write.
RowsInv == \A e \in Ids, x \in Arquivos : imagem[e] = x => Tem(x, e)

RequestsInv ==
  \A q \in Requests, e \in Ids, x \in Arquivos :
    ~Idle(q) /\ req[q].alvo = e /\ (req[q].remove = x \/ req[q].novo = x) => Tem(x, e)

\* The script takes a file with the event it was listed with, and compresses
\* only one that is not *.webp; what it has stored is of the event of its row.
ScriptInv ==
  script # Nenhum =>
    /\ \A e \in Ids, x \in Arquivos : <<e, x>> \in script.fila => Tem(x, e)
    /\ script.pc # "proxima" =>
         /\ script.alvo \in Ids /\ script.original \in Arquivos
         /\ \A e \in Ids, x \in Arquivos :
              script.alvo = e /\ script.original = x => Tem(x, e) /\ ~bucket[x].webp
    /\ script.pc \in {"gravar", "remover"} =>
         /\ script.novo \in Arquivos
         /\ \A e \in Ids, x \in Arquivos :
              script.alvo = e /\ script.novo = x => Tem(x, e)

\* What was compressed is *.webp.
PictureInv ==
  \A x \in Arquivos : /\ bucket[x].vezes <= 1
                      /\ ~bucket[x].webp => bucket[x].vezes = 0

IInv == TypeOK /\ FreshInv /\ RowsInv /\ RequestsInv /\ ScriptInv /\ PictureInv
-----------------------------------------------------------------------------
(* The files.                                                              *)

\* A file keeps the event and the name it was stored with, and the history of
\* its picture.
Stable ==
  \A x \in Arquivos : bucket[x].vida # "novo" =>
    /\ bucket'[x].vida # "novo" /\ bucket'[x].de = bucket[x].de
    /\ bucket'[x].webp = bucket[x].webp /\ bucket'[x].vezes = bucket[x].vezes

\* What the invariant says of the files alone.
FilesInv == bucket \in [Arquivos -> Arquivo] /\ FreshInv /\ PictureInv

\* The history of copies only grows.
Grown == copiadas \subseteq copiadas' /\ copiadas' \subseteq Arquivos

\* What an event may hold it may go on holding.
LEMMA HeldStays ==
  ASSUME IInv, Stable, Grown, NEW x \in Arquivos, NEW e \in Ids, Tem(x, e)
  PROVE  Tem(x, e)' /\ bucket'[x].webp = bucket[x].webp
  BY NenhumAssumption DEF IInv, FreshInv, Stable, Grown, Tem

\* The file drawn by a request or by the script (_build_path).
LEMMA StoreFiles ==
  ASSUME IInv, NEW x \in Arquivos, NEW e \in Ids, bucket[x].vida = "novo",
         NEW webp \in BOOLEAN, NEW vezes \in {0, 1}, webp \/ vezes = 0,
         bucket' = [bucket EXCEPT ![x] = Stored(e, webp, vezes)]
  PROVE  FilesInv' /\ Stable /\ bucket'[x].de = e /\ Tem(x, e)'
<1>1. bucket \in [Arquivos -> Arquivo] /\ Stored(e, webp, vezes) \in Arquivo
  BY DEF IInv, TypeOK, Stored, Arquivo
<1>2. /\ bucket' \in [Arquivos -> Arquivo]
      /\ \A y \in Arquivos : bucket'[y] = IF y = x THEN Stored(e, webp, vezes) ELSE bucket[y]
  BY <1>1
<1>3. e # Nenhum
  BY NenhumAssumption
<1> QED BY <1>1, <1>2, <1>3 DEF FilesInv, FreshInv, PictureInv, Stable, IInv, Stored, Tem

\* The file that is removed, if it is one.
LEMMA RemoveFiles ==
  ASSUME IInv, NEW x \in Arquivos, bucket[x].de \in Ids,
         bucket' = [bucket EXCEPT ![x].vida = "removido"]
  PROVE  FilesInv' /\ Stable
<1>1. bucket \in [Arquivos -> Arquivo]
  BY DEF IInv, TypeOK
<1>2. /\ bucket' \in [Arquivos -> Arquivo]
      /\ \A y \in Arquivos :
           /\ bucket'[y].de = bucket[y].de /\ bucket'[y].webp = bucket[y].webp
           /\ bucket'[y].vezes = bucket[y].vezes
           /\ bucket'[y].vida = IF y = x THEN "removido" ELSE bucket[y].vida
  BY <1>1 DEF Arquivo
<1> QED BY <1>2, NenhumAssumption DEF FilesInv, FreshInv, PictureInv, Stable, IInv

-----------------------------------------------------------------------------
(* What the files are held by.                                             *)

\* A step, given what it makes of the rows, of the requests and of the script:
\* what is left alone stays right, because the files do.
LEMMA StepInv ==
  ASSUME IInv, FilesInv', Stable, Grown, vivos' \subseteq Ids,
         imagem' \in [Ids -> Url \cup {Nenhum}],
         req' \in [Requests -> Request \cup {Nenhum}],
         script' \in Rodada \cup {Nenhum},
         \A e \in Ids, x \in Arquivos :
           imagem'[e] = x /\ imagem'[e] # imagem[e] => Tem(x, e)',
         \A q \in Requests, e \in Ids, x \in Arquivos :
           /\ req'[q] # Nenhum /\ req'[q] # req[q] /\ req'[q].alvo = e
           /\ req'[q].remove = x \/ req'[q].novo = x
           => Tem(x, e)',
         script' = script \/ ScriptInv'
  PROVE  IInv'
<1>1. RowsInv'
  <2> SUFFICES ASSUME NEW e \in Ids, NEW x \in Arquivos, imagem'[e] = x PROVE Tem(x, e)'
    BY DEF RowsInv
  <2>1. CASE imagem'[e] = imagem[e]
    BY <2>1, HeldStays DEF IInv, RowsInv
  <2> QED BY <2>1
<1>2. TypeOK'
  <2>1. ASSUME NEW e \in Ids, NEW x \in Arquivos, imagem'[e] = x, x \notin copiadas'
        PROVE  bucket'[x].de = e
    BY <1>1, <2>1 DEF RowsInv, Tem
  <2> QED BY <2>1 DEF TypeOK, FilesInv, Grown
<1>3. RequestsInv'
  <2> SUFFICES ASSUME NEW q \in Requests, NEW e \in Ids, NEW x \in Arquivos,
                      req'[q] # Nenhum, req'[q].alvo = e,
                      req'[q].remove = x \/ req'[q].novo = x
               PROVE  Tem(x, e)'
    BY DEF RequestsInv, Idle
  <2>1. CASE req'[q] = req[q]
    <3>1. Tem(x, e)
      BY <2>1 DEF IInv, RequestsInv, Idle
    <3> QED BY <3>1, HeldStays
  <2> QED BY <2>1
<1>4. ScriptInv'
  <2>1. CASE script' = script
    <3> SUFFICES ASSUME script # Nenhum PROVE ScriptInv'
      BY <2>1 DEF ScriptInv
    <3>1. ASSUME NEW e \in Ids, NEW x \in Arquivos, <<e, x>> \in script.fila
          PROVE  Tem(x, e)'
      BY <3>1, HeldStays DEF IInv, ScriptInv
    <3>2. ASSUME script.pc # "proxima", NEW e \in Ids, NEW x \in Arquivos,
                 script.alvo = e, script.original = x
          PROVE  Tem(x, e)' /\ ~bucket'[x].webp
      <4>1. Tem(x, e) /\ ~bucket[x].webp
        BY <3>2 DEF IInv, ScriptInv
      <4> QED BY <4>1, HeldStays
    <3>3. ASSUME script.pc \in {"gravar", "remover"}, NEW e \in Ids, NEW x \in Arquivos,
                 script.alvo = e, script.novo = x
          PROVE  Tem(x, e)'
      <4>1. Tem(x, e)
        BY <3>3 DEF IInv, ScriptInv
      <4> QED BY <4>1, HeldStays
    <3> QED BY <2>1, <3>1, <3>2, <3>3 DEF IInv, ScriptInv
  <2> QED BY <2>1
<1> QED BY <1>1, <1>2, <1>3, <1>4 DEF IInv, FilesInv

\* A step that gives no file to another event.
LEMMA NothingGiven ==
  ASSUME IInv, copiadas' = copiadas
  PROVE  Grown
  BY DEF IInv, TypeOK, Grown

\* Files that no step touches.
LEMMA SameFiles ==
  ASSUME IInv, bucket' = bucket
  PROVE  FilesInv' /\ Stable
  BY DEF IInv, TypeOK, FilesInv, FreshInv, PictureInv, Stable
-----------------------------------------------------------------------------
(* The requests.                                                           *)

\* The first read of a request, which has so far files that its event may hold.
LEMMA StartInv ==
  ASSUME IInv, NEW q \in Requests, NEW op \in Operation, NEW pc \in {"storage", "banco"},
         NEW e \in Ids, NEW remove \in Url \cup {Nenhum}, NEW novo \in Url \cup {Nenhum},
         \A x \in Arquivos : remove = x => Tem(x, e),
         \A x \in Arquivos : novo = x => bucket[x].de \in Ids,
         Start(q, op, pc, e, remove, novo)
  PROVE  IInv'
<1> DEFINE rec == [op |-> op, pc |-> pc, alvo |-> e, remove |-> remove, novo |-> novo]
<1>1. rec \in Request
  BY DEF Request
<1>2. /\ req' = [req EXCEPT ![q] = rec] /\ req \in [Requests -> Request \cup {Nenhum}]
      /\ UNCHANGED <<vivos, imagem, bucket, script>>
      /\ copiadas' = copiadas \cup {x \in Arquivos : novo = x /\ bucket[x].de # e}
  BY DEF Start, IInv, TypeOK
<1>3. \A p \in Requests : req'[p] = IF p = q THEN rec ELSE req[p]
  BY <1>2
<1>4. rec.remove = remove /\ rec.novo = novo /\ rec.alvo = e
  OBVIOUS
<1> HIDE DEF rec
<1>5. req' \in [Requests -> Request \cup {Nenhum}]
  BY <1>1, <1>2
<1>6. FilesInv' /\ Stable /\ Grown
  BY <1>2, SameFiles DEF Grown, IInv, TypeOK
<1>7. \A x \in Arquivos : remove = x \/ novo = x => Tem(x, e)'
  BY <1>2 DEF Tem
<1>8. /\ vivos' \subseteq Ids
      /\ imagem' \in [Ids -> Url \cup {Nenhum}] /\ script' \in Rodada \cup {Nenhum}
  BY <1>2 DEF IInv, TypeOK
<1>9. \A p \in Requests, i \in Ids, x \in Arquivos :
        /\ req'[p] # Nenhum /\ req'[p] # req[p] /\ req'[p].alvo = i
        /\ req'[p].remove = x \/ req'[p].novo = x
        => Tem(x, i)'
  BY <1>3, <1>4, <1>7
<1> QED BY <1>2, <1>5, <1>6, <1>8, <1>9, StepInv

\* The end of a request, whatever it leaves in the row of its event.
LEMMA EndInv ==
  ASSUME IInv, NEW q \in Requests, req' = [req EXCEPT ![q] = Nenhum],
         UNCHANGED <<vivos, bucket, script, copiadas>>,
         imagem' \in [Ids -> Url \cup {Nenhum}],
         \A e \in Ids, x \in Arquivos : imagem'[e] = x /\ imagem'[e] # imagem[e] => Tem(x, e)
  PROVE  IInv'
<1>1. /\ req' \in [Requests -> Request \cup {Nenhum}]
      /\ \A p \in Requests : req'[p] # Nenhum => req'[p] = req[p]
  BY DEF IInv, TypeOK
<1>2. FilesInv' /\ Stable /\ Grown
  BY SameFiles, NothingGiven
<1>3. \A e \in Ids, x \in Arquivos : imagem'[e] = x /\ imagem'[e] # imagem[e] => Tem(x, e)'
  BY DEF Tem
<1>4. vivos' \subseteq Ids /\ script' \in Rodada \cup {Nenhum}
  BY DEF IInv, TypeOK
<1> QED BY <1>1, <1>2, <1>3, <1>4, StepInv

LEMMA RequestsKeep ==
  ASSUME IInv, NEW q \in Requests,
         \/ \E e \in Ids : \/ UploadEventImage(q, e) \/ DeleteEventImage(q, e)
                           \/ \E url \in Corpo : UpdateImage(q, e, url)
         \/ \E x \in Arquivos : StoreFile(q, x)
         \/ RemoveByPublicUrl(q) \/ RepoUpdate(q) \/ RequestEnds(q)
  PROVE  IInv'
<1>1. ASSUME NEW e \in Ids, UploadEventImage(q, e) PROVE IInv'
  BY <1>1, StartInv, NenhumAssumption DEF UploadEventImage, Operation, Url
<1>2. ASSUME NEW e \in Ids, DeleteEventImage(q, e) PROVE IInv'
  <2>1. imagem[e] \in Url /\ \A x \in Arquivos : imagem[e] = x => Tem(x, e)
    BY <1>2 DEF DeleteEventImage, IInv, TypeOK, RowsInv
  <2>2. \A x \in Arquivos : Nenhum # x
    BY NenhumAssumption DEF Url
  <2> QED BY <1>2, <2>1, <2>2, StartInv DEF DeleteEventImage, Operation
<1>3. ASSUME NEW e \in Ids, NEW url \in Corpo, UpdateImage(q, e, url) PROVE IInv'
  <2>1. /\ url \in Url \cup {Nenhum}
        /\ \A x \in Arquivos : url = x => bucket[x].de \in Ids
    BY NenhumAssumption DEF Corpo, Url, Existe, IInv, TypeOK, FreshInv, Arquivo
  <2>2. \A x \in Arquivos : Nenhum # x
    BY NenhumAssumption DEF Url
  <2> QED BY <1>3, <2>1, <2>2, StartInv DEF UpdateImage, Operation
<1>4. ASSUME NEW x \in Arquivos, StoreFile(q, x) PROVE IInv'
  <2>1. /\ req[q] \in Request /\ req[q].alvo \in Ids
        /\ req \in [Requests -> Request \cup {Nenhum}]
        /\ bucket[x].vida = "novo"
        /\ UNCHANGED <<vivos, imagem, script, copiadas>>
    BY <1>4 DEF StoreFile, At, BuildPath, IInv, TypeOK, Request
  <2> DEFINE e == req[q].alvo
  <2>0. PICK i \in Ids : i = e
    BY <2>1
  <2>2. FilesInv' /\ Stable /\ Grown /\ Tem(x, i)'
    <3>1. PICK otimizada \in BOOLEAN, webp \in BOOLEAN :
            /\ otimizada => webp
            /\ bucket' = [bucket EXCEPT
                            ![x] = Stored(req[q].alvo, webp, IF otimizada THEN 1 ELSE 0)]
      BY <1>4 DEF StoreFile
    <3>2. CASE otimizada
      <4>1. bucket' = [bucket EXCEPT ![x] = Stored(req[q].alvo, TRUE, 1)]
        BY <3>1, <3>2
      <4> QED BY <2>0, <2>1, <4>1, StoreFiles, NothingGiven
    <3>3. CASE ~otimizada
      <4>1. bucket' = [bucket EXCEPT ![x] = Stored(req[q].alvo, webp, 0)]
        BY <3>1, <3>3
      <4> QED BY <2>0, <2>1, <4>1, StoreFiles, NothingGiven
    <3> QED BY <3>2, <3>3
  <2> DEFINE rec == [req[q] EXCEPT !.pc = "banco", !.novo = x]
  <2>3. /\ rec \in Request /\ rec.novo = x /\ rec.remove = req[q].remove
        /\ rec.alvo = req[q].alvo
    BY <2>1 DEF Request, Url
  <2>4. req' = [req EXCEPT ![q] = rec]
    BY <1>4 DEF StoreFile
  <2> HIDE DEF rec
  <2>5. /\ req' \in [Requests -> Request \cup {Nenhum}]
        /\ \A p \in Requests : req'[p] = IF p = q THEN rec ELSE req[p]
    BY <2>1, <2>3, <2>4
  <2>6. ASSUME NEW y \in Arquivos, rec.remove = y \/ rec.novo = y
        PROVE  Tem(y, i)'
    <3>1. CASE y = x
      BY <2>2, <3>1
    <3>2. CASE y # x
      <4>1. Tem(y, i)
        BY <1>4, <2>0, <2>3, <2>6, <3>2 DEF StoreFile, At, IInv, RequestsInv, Idle
      <4> QED BY <2>2, <4>1, HeldStays
    <3> QED BY <3>1, <3>2
  <2> QED BY <2>0, <2>1, <2>2, <2>3, <2>5, <2>6, StepInv DEF IInv, TypeOK
<1>5. ASSUME RemoveByPublicUrl(q) PROVE IInv'
  <2>1. /\ req[q] \in Request /\ req[q].alvo \in Ids /\ req[q] # Nenhum
        /\ req \in [Requests -> Request \cup {Nenhum}]
        /\ UNCHANGED <<vivos, imagem, script, copiadas>>
    BY <1>5 DEF RemoveByPublicUrl, At, IInv, TypeOK, Request
  <2>2. FilesInv' /\ Stable /\ Grown
    <3>1. CASE req[q].remove \in Arquivos
      <4>1. bucket[req[q].remove].de \in Ids
        BY <2>1, <3>1 DEF IInv, RequestsInv, Idle, Tem
      <4> QED BY <1>5, <2>1, <3>1, <4>1, RemoveFiles, NothingGiven DEF RemoveByPublicUrl
    <3>2. CASE req[q].remove \notin Arquivos
      BY <1>5, <2>1, <3>2, SameFiles, NothingGiven DEF RemoveByPublicUrl
    <3> QED BY <3>1, <3>2
  <2> DEFINE rec == [req[q] EXCEPT !.pc = "banco"]
  <2>3. /\ rec \in Request /\ rec.novo = req[q].novo /\ rec.remove = req[q].remove
        /\ rec.alvo = req[q].alvo
    BY <2>1 DEF Request
  <2>4. req' = [req EXCEPT ![q] = rec]
    BY <1>5 DEF RemoveByPublicUrl
  <2> HIDE DEF rec
  <2>5. /\ req' \in [Requests -> Request \cup {Nenhum}]
        /\ \A p \in Requests : req'[p] = IF p = q THEN rec ELSE req[p]
    BY <2>1, <2>3, <2>4
  <2>6. ASSUME NEW y \in Arquivos, NEW i \in Ids, i = rec.alvo,
               rec.remove = y \/ rec.novo = y
        PROVE  Tem(y, i)'
    <3>1. Tem(y, i)
      BY <2>1, <2>3, <2>6 DEF IInv, RequestsInv, Idle
    <3> QED BY <2>2, <3>1, HeldStays
  <2> QED BY <2>1, <2>2, <2>5, <2>6, StepInv DEF IInv, TypeOK
<1>6. ASSUME RepoUpdate(q) PROVE IInv'
  <2>1. req[q] \in Request /\ ~Idle(q) /\ imagem \in [Ids -> Url \cup {Nenhum}]
    BY <1>6 DEF RepoUpdate, At, Idle, IInv, TypeOK
  <2>2. \A e \in Ids, x \in Arquivos : req[q].alvo = e /\ req[q].novo = x => Tem(x, e)
    BY <2>1 DEF IInv, RequestsInv
  <2>3. imagem' = [imagem EXCEPT ![req[q].alvo] = req[q].novo]
    BY <1>6 DEF RepoUpdate
  <2>4. req[q].novo \in Url \cup {Nenhum} /\ req[q].alvo \in Ids
    BY <2>1 DEF Request
  <2>5. /\ imagem' \in [Ids -> Url \cup {Nenhum}]
        /\ \A e \in Ids : imagem'[e] = IF e = req[q].alvo THEN req[q].novo ELSE imagem[e]
    BY <2>1, <2>3, <2>4
  <2> QED BY <1>6, <2>2, <2>5, EndInv DEF RepoUpdate
<1>7. ASSUME RequestEnds(q) PROVE IInv'
  BY <1>7, EndInv DEF RequestEnds, IInv, TypeOK
<1> QED BY <1>1, <1>2, <1>3, <1>4, <1>5, <1>6, <1>7

LEMMA DeleteKeeps ==
  ASSUME IInv, NEW e \in Ids, DeleteEvent(e)
  PROVE  IInv'
<1>1. /\ imagem' \in [Ids -> Url \cup {Nenhum}] /\ vivos' \subseteq Ids
      /\ \A i \in Ids : imagem'[i] # imagem[i] => imagem'[i] = Nenhum
      /\ UNCHANGED <<bucket, req, script, copiadas>>
  BY DEF DeleteEvent, IInv, TypeOK
<1>2. Nenhum \notin Arquivos /\ FilesInv' /\ Stable /\ Grown
  BY <1>1, SameFiles, NothingGiven, NenhumAssumption DEF Url
<1> QED BY <1>1, <1>2, StepInv DEF IInv, TypeOK

-----------------------------------------------------------------------------
(* The script.                                                             *)

\* What the script is at, by the invariant.
LEMMA ScriptHolds ==
  ASSUME IInv, script # Nenhum
  PROVE  /\ script \in Rodada
         /\ \A e \in Ids, x \in Arquivos : <<e, x>> \in script.fila => Tem(x, e)
  BY DEF IInv, TypeOK, ScriptInv, Rodada

LEMMA NextRowHolds ==
  ASSUME script \in Rodada
  PROVE  /\ NextRow \in Rodada /\ NextRow.pc = "proxima"
         /\ NextRow.fila = script.fila
  BY DEF NextRow, Rodada

\* A step of the script that leaves the rows and the requests alone.
LEMMA ScriptStepInv ==
  ASSUME IInv, FilesInv', Stable, UNCHANGED <<vivos, imagem, req, copiadas>>,
         script' \in Rodada \cup {Nenhum}, ScriptInv'
  PROVE  IInv'
  BY StepInv, NothingGiven DEF IInv, TypeOK

LEMMA StartsKeeps ==
  ASSUME IInv, NEW remover \in BOOLEAN, ScriptStarts(remover)
  PROVE  IInv'
<1>1. UNCHANGED <<vivos, imagem, bucket, req, copiadas>>
  BY DEF ScriptStarts
<1>2. /\ script' = [pc |-> "proxima", alvo |-> Nenhum, original |-> Nenhum, novo |-> Nenhum,
                    fila |-> {<<e, imagem[e]>> : e \in {i \in Ids : imagem[i] \in Arquivos}},
                    remover |-> remover]
  BY DEF ScriptStarts
<1>3. script'.pc = "proxima" /\ script' \in Rodada
  BY <1>2 DEF Rodada
<1>4. \A e \in Ids, x \in Arquivos : <<e, x>> \in script'.fila => Tem(x, e)'
  BY <1>1, <1>2 DEF IInv, RowsInv, Tem
<1>5. ScriptInv'
  BY <1>3, <1>4 DEF ScriptInv
<1>6. FilesInv' /\ Stable
  BY <1>1, SameFiles
<1> QED BY <1>1, <1>3, <1>5, <1>6, ScriptStepInv

LEMMA TakesKeeps ==
  ASSUME IInv, NEW e \in Ids, NEW x \in Arquivos, NEW ganho \in BOOLEAN,
         ScriptTakes(e, x, ganho)
  PROVE  IInv'
<1>1. /\ script # Nenhum /\ script.pc = "proxima" /\ <<e, x>> \in script.fila
      /\ UNCHANGED <<vivos, imagem, bucket, req, copiadas>>
  BY DEF ScriptTakes, Rodando
<1>2. Tem(x, e) /\ script \in Rodada
  BY <1>1, ScriptHolds
<1>3. \/ script' = [script EXCEPT !.fila = @ \ {<<e, x>>}]
      \/ /\ ~bucket[x].webp
         /\ script' = [script EXCEPT !.pc = "enviar", !.fila = @ \ {<<e, x>>},
                                     !.alvo = e, !.original = x]
  BY DEF ScriptTakes, NeedsWork
<1>4. /\ script' \in Rodada /\ script'.fila \subseteq script.fila
      /\ \/ script'.pc = "proxima"
         \/ /\ script'.pc = "enviar" /\ script'.alvo = e /\ script'.original = x
            /\ ~bucket[x].webp
  <2>1. CASE script' = [script EXCEPT !.fila = @ \ {<<e, x>>}]
    BY <1>1, <1>2, <2>1 DEF Rodada
  <2>2. CASE /\ ~bucket[x].webp
             /\ script' = [script EXCEPT !.pc = "enviar", !.fila = @ \ {<<e, x>>},
                                         !.alvo = e, !.original = x]
    BY <1>1, <1>2, <2>2 DEF Rodada
  <2> QED BY <1>3, <2>1, <2>2
<1>5. ScriptInv'
  BY <1>1, <1>2, <1>4, ScriptHolds DEF ScriptInv, Tem
<1>6. FilesInv' /\ Stable
  BY <1>1, SameFiles
<1> QED BY <1>1, <1>4, <1>5, <1>6, ScriptStepInv DEF IInv, TypeOK

LEMMA StoresKeeps ==
  ASSUME IInv, NEW y \in Arquivos, ScriptStores(y)
  PROVE  IInv'
<1>1. /\ script # Nenhum /\ script.pc = "enviar" /\ script \in Rodada
      /\ bucket[y].vida = "novo" /\ UNCHANGED <<vivos, imagem, req, copiadas>>
  BY ScriptHolds DEF ScriptStores, Rodando, BuildPath
<1>2. /\ script.alvo \in Ids /\ script.original \in Arquivos
      /\ ~bucket[script.original].webp /\ bucket[script.original].vezes = 0
  BY <1>1 DEF IInv, ScriptInv, PictureInv
<1>3. bucket' = [bucket EXCEPT ![y] = Stored(script.alvo, TRUE, 1)]
  BY <1>2 DEF ScriptStores
<1>4. PICK e \in Ids, x \in Arquivos : e = script.alvo /\ x = script.original
  BY <1>2
<1>8. FilesInv' /\ Stable /\ Grown /\ Tem(y, e)'
  BY <1>1, <1>3, <1>4, StoreFiles, NothingGiven
<1>5. /\ script' \in Rodada /\ script'.fila = script.fila /\ script'.pc = "gravar"
      /\ script'.alvo = script.alvo /\ script'.original = script.original /\ script'.novo = y
  BY <1>1 DEF ScriptStores, Rodada
<1>6. /\ \A i \in Ids, z \in Arquivos : <<i, z>> \in script.fila => Tem(z, i)'
      /\ Tem(x, e)' /\ ~bucket'[x].webp
  <2>1. Tem(x, e) /\ ~bucket[x].webp
    BY <1>1, <1>4 DEF IInv, ScriptInv
  <2> QED BY <1>1, <1>8, <2>1, ScriptHolds, HeldStays
<1>7. ScriptInv'
  BY <1>2, <1>4, <1>8, <1>5, <1>6 DEF ScriptInv
<1> QED BY <1>1, <1>8, <1>5, <1>7, ScriptStepInv DEF IInv, TypeOK

\* The UPDATE: the file stored for the row is of the event of the row.
LEMMA UpdatesKeeps ==
  ASSUME IInv, ScriptUpdates
  PROVE  IInv'
<1>1. /\ script # Nenhum /\ script.pc = "gravar" /\ script \in Rodada
      /\ UNCHANGED <<vivos, bucket, req, copiadas>>
      /\ imagem \in [Ids -> Url \cup {Nenhum}]
  BY ScriptHolds DEF ScriptUpdates, Rodando, IInv, TypeOK
<1>2. /\ script.alvo \in Ids /\ script.original \in Arquivos /\ script.novo \in Arquivos
      /\ \A e \in Ids, x \in Arquivos :
           /\ script.alvo = e /\ script.original = x => Tem(x, e) /\ ~bucket[x].webp
           /\ script.alvo = e /\ script.novo = x => Tem(x, e)
  BY <1>1 DEF IInv, ScriptInv
<1>3. /\ imagem' \in [Ids -> Url \cup {Nenhum}]
      /\ \A e \in Ids : imagem'[e] # imagem[e] => e = script.alvo /\ imagem'[e] = script.novo
  BY <1>1, <1>2 DEF ScriptUpdates, Url
<1>4. /\ script' \in Rodada /\ script'.fila = script.fila
      /\ \/ script'.pc = "proxima"
         \/ /\ script'.pc = "remover" /\ script'.alvo = script.alvo
            /\ script'.original = script.original /\ script'.novo = script.novo
  <2>1. CASE script' = NextRow
    BY <1>1, <2>1, NextRowHolds
  <2>2. CASE script' = [script EXCEPT !.pc = "remover"]
    BY <1>1, <2>2 DEF Rodada
  <2> QED BY <2>1, <2>2 DEF ScriptUpdates
<1>5. ScriptInv'
  BY <1>1, <1>2, <1>4, ScriptHolds DEF ScriptInv, Tem
<1>6. FilesInv' /\ Stable /\ Grown
  BY <1>1, SameFiles, NothingGiven
<1>7. \A e \in Ids, x \in Arquivos : imagem'[e] = x /\ imagem'[e] # imagem[e] => Tem(x, e)'
  BY <1>1, <1>2, <1>3 DEF Tem
<1> QED BY <1>1, <1>3, <1>4, <1>5, <1>6, <1>7, StepInv DEF IInv, TypeOK

LEMMA RemovesKeeps ==
  ASSUME IInv, ScriptRemoves
  PROVE  IInv'
<1>1. /\ script # Nenhum /\ script.pc = "remover" /\ script \in Rodada
      /\ UNCHANGED <<vivos, imagem, req, copiadas>> /\ script' = NextRow
      /\ bucket' = [bucket EXCEPT ![script.original].vida = "removido"]
  BY ScriptHolds DEF ScriptRemoves, Rodando
<1>2. script.original \in Arquivos /\ bucket[script.original].de \in Ids
  BY <1>1 DEF IInv, ScriptInv, Tem
<1>3. FilesInv' /\ Stable /\ Grown
  BY <1>1, <1>2, RemoveFiles, NothingGiven
<1>4. script' \in Rodada /\ script'.pc = "proxima" /\ script'.fila = script.fila
  BY <1>1, NextRowHolds
<1>5. ScriptInv'
  BY <1>1, <1>3, <1>4, ScriptHolds, HeldStays DEF ScriptInv
<1> QED BY <1>1, <1>3, <1>4, <1>5, ScriptStepInv DEF IInv, TypeOK

LEMMA EndsKeeps ==
  ASSUME IInv, ScriptEnds
  PROVE  IInv'
<1>1. UNCHANGED <<vivos, imagem, bucket, req, copiadas>> /\ script' = Nenhum
  BY DEF ScriptEnds
<1>2. ScriptInv' /\ FilesInv' /\ Stable
  BY <1>1, SameFiles DEF ScriptInv
<1> QED BY <1>1, <1>2, ScriptStepInv DEF IInv, TypeOK

-----------------------------------------------------------------------------
(* The theorems.                                                           *)

LEMMA InitIInv == Init => IInv
  BY NenhumAssumption
  DEF Init, IInv, TypeOK, FreshInv, RowsInv, RequestsInv, ScriptInv, PictureInv, Idle,
      Arquivo, Url

LEMMA NextIInv == IInv /\ [Next]_vars => IInv'
<1> SUFFICES ASSUME IInv, [Next]_vars PROVE IInv'
  OBVIOUS
<1>1. CASE Next
  BY <1>1, RequestsKeep, DeleteKeeps, StartsKeeps, TakesKeeps, StoresKeeps, UpdatesKeeps,
     RemovesKeeps, EndsKeeps
  DEF Next
<1>2. CASE UNCHANGED vars
  BY <1>2
  DEF vars, IInv, TypeOK, FreshInv, RowsInv, RequestsInv, ScriptInv, PictureInv, Idle, Tem
<1> QED BY <1>1, <1>2

LEMMA Invariance == Spec => []IInv
  BY InitIInv, NextIInv, PTL DEF Spec

\* Rows, files, requests and the script keep their types; and a file that an
\* event shows was stored for that very event, by whatever wrote the column (an
\* upload, a PUT of an older value, the script), unless its URL was given to an
\* event it was not stored for (events.py, main of the script).
THEOREM TypeCorrect == Spec => []TypeOK
<1>1. IInv => TypeOK
  BY DEF IInv
<1> QED BY <1>1, Invariance, PTL

\* No picture is compressed twice, in any number of runs of the script, stopped
\* anywhere: what it stores is *.webp, and what is *.webp it leaves alone.
THEOREM NeverCompressedTwice == Spec => []CompressedOnce
<1>1. IInv => CompressedOnce
  BY DEF IInv, PictureInv, CompressedOnce
<1> QED BY <1>1, Invariance, PTL

\* The bucket loses a file that an event shows, and that no other event was given
\* the URL of, only to a request that deletes the image of that event, or to the
\* script at that event (remove_by_public_url, --remover-originais).
THEOREM NoImageTakenFromAnother == Spec => ImagesAreNotTakenFromOthers
<1> DEFINE Step ==
      \A e \in Ids :
        /\ imagem[e] \in Arquivos \ copiadas
        /\ Existe(imagem[e])
        /\ bucket'[imagem[e]].vida # "existe"
        => \/ \E q \in Requests :
                req[q] # Nenhum /\ req[q].op = "delete" /\ req[q].alvo = e
           \/ script # Nenhum /\ script.alvo = e /\ script.original = imagem[e]
<1>1. IInv /\ [Next]_vars => [Step]_vars
  <2> SUFFICES ASSUME IInv, Next, NEW e \in Ids, imagem[e] \in Arquivos \ copiadas,
                      Existe(imagem[e]),
                      bucket'[imagem[e]].vida # "existe"
               PROVE  \/ \E q \in Requests :
                           req[q] # Nenhum /\ req[q].op = "delete" /\ req[q].alvo = e
                      \/ script # Nenhum /\ script.alvo = e /\ script.original = imagem[e]
    OBVIOUS
  <2>1. bucket \in [Arquivos -> Arquivo] /\ bucket[imagem[e]].de = e /\ bucket' # bucket
    BY DEF IInv, TypeOK, Existe
  <2>2. ASSUME NEW x \in Arquivos, bucket[x].vida = "novo", NEW b,
               bucket' = [bucket EXCEPT ![x] = b]
        PROVE  FALSE
    BY <2>1, <2>2 DEF Existe
  <2>3. ASSUME NEW q \in Requests, RemoveByPublicUrl(q)
        PROVE  req[q] # Nenhum /\ req[q].op = "delete" /\ req[q].alvo = e
    <3>1. /\ req[q] # Nenhum /\ req[q].op = "delete" /\ req[q].remove \in Arquivos
          /\ bucket' = [bucket EXCEPT ![req[q].remove].vida = "removido"]
      BY <2>1, <2>3 DEF RemoveByPublicUrl, At
    <3>2. req[q].remove = imagem[e]
      BY <2>1, <3>1 DEF Existe
    <3>3. PICK i \in Ids : i = req[q].alvo
      BY <3>1 DEF IInv, TypeOK, Request
    <3>4. Tem(imagem[e], i)
      BY <3>1, <3>2, <3>3 DEF IInv, RequestsInv, Idle
    <3> QED BY <2>1, <3>1, <3>3, <3>4 DEF Tem
  <2>4. ASSUME ScriptRemoves
        PROVE  script # Nenhum /\ script.alvo = e /\ script.original = imagem[e]
    <3>1. /\ script # Nenhum /\ script.pc = "remover"
          /\ bucket' = [bucket EXCEPT ![script.original].vida = "removido"]
      BY <2>4 DEF ScriptRemoves, Rodando
    <3>2. script.original = imagem[e]
      BY <2>1, <3>1 DEF Existe
    <3>3. PICK i \in Ids : i = script.alvo
      BY <3>1 DEF IInv, ScriptInv
    <3>4. Tem(imagem[e], i)
      BY <3>1, <3>2, <3>3 DEF IInv, ScriptInv
    <3> QED BY <2>1, <3>1, <3>2, <3>3, <3>4 DEF Tem
  <2> QED
    BY <2>1, <2>2, <2>3, <2>4
    DEF Next, UploadEventImage, DeleteEventImage, UpdateImage, Start, StoreFile, BuildPath,
        RepoUpdate, RequestEnds, DeleteEvent, ScriptStarts, ScriptTakes, ScriptStores,
        ScriptUpdates, ScriptEnds
<1> QED BY <1>1, Invariance, PTL DEF Spec, ImagesAreNotTakenFromOthers
=============================================================================
