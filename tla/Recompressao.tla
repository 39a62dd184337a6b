----------------------------- MODULE Recompressao -----------------------------
(***************************************************************************)
(* The maintenance script scripts/otimizar_imagens_existentes.py over the  *)
(* photos of the gallery, composed with the requests of Galeria.  It works *)
(* through the rows it has listed once, with no transaction around a row:  *)
(* a photo may be deleted, or its deletion be under way, between any two   *)
(* of the script's accesses.  (Over the images of events, which requests   *)
(* change in another way, it is in ImagensEvento.)                         *)
(***************************************************************************)
EXTENDS Galeria

CONSTANT Webp  \* the paths that end in .webp

ASSUME WebpAssumption == Webp \subseteq Arquivos

\* A run of the script: the rows it has listed and not reached, the row it is
\* at, the file it has stored for it, and --remover-originais.
Rodada ==
  [pc : {"proxima", "enviar", "gravar", "remover"}, fila : SUBSET (Fotos \X Arquivos),
   alvo : Fotos \cup {Nenhum}, original : Arquivos \cup {Nenhum},
   novo : Arquivos \cup {Nenhum}, remover : BOOLEAN]

ASSUME RodadaAssumption == Nenhum \notin Rodada

VARIABLES
  script,   \* the run of the script in progress, or Nenhum
  trocadas, \* history: <<q, f>>, the script replaced f's file since q loaded f
  copiadas  \* history: the files in the bucket that were given as URLs of photos

varsScript == <<vars, script, trocadas, copiadas>>

Rodando(pc) == script # Nenhum /\ script.pc = pc

InitScript ==
  /\ Init
  /\ script = Nenhum
  /\ trocadas = {}
  /\ copiadas = {}

\* A request takes a step; the file it stores has a path that nobody has.
RequestStep ==
  /\ Next
  /\ UNCHANGED script
  /\ trocadas' = {t \in trocadas : req'[t[1]] # Nenhum}
  /\ copiadas' = {x \in Arquivos :
                    /\ bucket'[x] = "existe"
                    /\ \/ x \in copiadas
                       \/ \E q \in Requests :
                            req'[q] # Nenhum /\ req'[q].op = "url" /\ req'[q].url = x}

-----------------------------------------------------------------------------
(* The script, with --apply.                                               *)

\* The SELECT: the photos whose URL is in the bucket, uploaded or not.
ScriptStarts(remover) ==
  /\ script = Nenhum
  /\ script' = [pc |-> "proxima", alvo |-> Nenhum, original |-> Nenhum, novo |-> Nenhum,
                fila |-> {<<f, fotos[f].url>> :
                            f \in {g \in Fotos : Existe(g) /\ fotos[g].url # Nenhum}},
                remover |-> remover]
  /\ UNCHANGED <<vars, trocadas, copiadas>>

\* A path that ends in .webp is skipped; or its file is downloaded and
\* compressed, and left alone when that gains nothing.
ScriptTakes(f, x, ganho) ==
  /\ Rodando("proxima")
  /\ <<f, x>> \in script.fila
  /\ x \notin Webp => bucket[x] = "existe"
  /\ script' = IF x \notin Webp /\ ganho
               THEN [script EXCEPT !.pc = "enviar", !.fila = @ \ {<<f, x>>},
                                   !.alvo = f, !.original = x]
               ELSE [script EXCEPT !.fila = @ \ {<<f, x>>}]
  /\ UNCHANGED <<vars, trocadas, copiadas>>

\* _build_path, with the name imagem.webp.
NewPath(y) == y \in Webp /\ BuildPath(y)

\* The compressed picture is stored under a new path.
ScriptStores(y) ==
  /\ Rodando("enviar")
  /\ NewPath(y)
  /\ bucket' = [bucket EXCEPT ![y] = "existe"]
  /\ script' = [script EXCEPT !.pc = "gravar", !.novo = y]
  /\ UNCHANGED <<albuns, fotos, req, trocadas, copiadas>>

NextRow == [script EXCEPT !.pc = "proxima", !.alvo = Nenhum, !.original = Nenhum,
                          !.novo = Nenhum]

\* UPDATE galeria_fotos SET url, storage_path WHERE id: no row is no error.
ScriptUpdates ==
  LET f == script.alvo
  IN  /\ Rodando("gravar")
      /\ IF Existe(f)
           THEN /\ fotos' = [fotos EXCEPT ![f].url = script.novo, ![f].arquivo = script.novo]
                /\ trocadas' = trocadas \cup
                     {<<q, f>> : q \in {p \in Requests : ~Idle(p) /\ f \in req[p].fotos}}
           ELSE UNCHANGED <<fotos, trocadas>>
      /\ script' = IF script.remover THEN [script EXCEPT !.pc = "remover"] ELSE NextRow
      /\ UNCHANGED <<albuns, bucket, req, copiadas>>

\* Defective variant: the file removed is the one just stored.
ScriptRemovesNew ==
  /\ Rodando("remover")
  /\ bucket' = [bucket EXCEPT ![script.novo] = "removido"]
  /\ script' = NextRow
  /\ UNCHANGED <<albuns, fotos, req, trocadas, copiadas>>

\* --remover-originais.
ScriptRemoves ==
  /\ Rodando("remover")
  /\ bucket' = [bucket EXCEPT ![script.original] = "removido"]
  /\ script' = NextRow
  /\ copiadas' = copiadas \ {script.original}
  /\ UNCHANGED <<albuns, fotos, req, trocadas>>

\* The script comes to its end, or stops at an error: a file that is gone (of a
\* deletion that failed after it, too), the storage, the database.
ScriptEnds ==
  /\ script # Nenhum
  /\ script' = Nenhum
  /\ UNCHANGED <<vars, trocadas, copiadas>>

ScriptStep ==
  \/ \E remover \in BOOLEAN : ScriptStarts(remover)
  \/ \E f \in Fotos, x \in Arquivos, ganho \in BOOLEAN : ScriptTakes(f, x, ganho)
  \/ \E y \in Arquivos : ScriptStores(y)
  \/ ScriptUpdates
  \/ ScriptRemoves
  \/ ScriptEnds

NextScript == RequestStep \/ ScriptStep

SpecScript == InitScript /\ [][NextScript]_varsScript

-----------------------------------------------------------------------------
(* Properties, beside those of Galeria.                                    *)

\* Types; the script has a photo and its file from the row it is at, and a path
\* of its own once it has stored the compressed one.
ScriptTypeOK ==
  /\ TypeOK
  /\ script \in Rodada \cup {Nenhum}
  /\ trocadas \subseteq {t \in Requests \X Fotos : ~Idle(t[1]) /\ t[2] \in req[t[1]].fotos}
  /\ copiadas \subseteq Arquivos
  /\ script # Nenhum /\ script.pc # "proxima" => script.alvo \in Fotos /\ script.original \in Arquivos
  /\ script # Nenhum /\ script.pc \in {"gravar", "remover"} => script.novo \in Arquivos

\* The rows that a deletion has loaded leave the table only after their files
\* have left the bucket, so that a deletion that failed half-way can be asked
\* for again; except a file that the script has put in place of the one the
\* deletion loaded, which stays behind without a row.  (So does the file of a
\* photo added to an album since its deletion loaded the others: the cascade
\* takes the row.)
RowsOutliveFiles ==
  [][\A q \in Requests, f \in Fotos :
       /\ req[q] # Nenhum /\ req'[q] = Nenhum /\ f \in req[q].fotos
       /\ Existe(f) /\ fotos'[f].vida = "removido" /\ fotos[f].arquivo # Nenhum
       => bucket[fotos[f].arquivo] = "removido" \/ <<q, f>> \in trocadas]_varsScript

\* Nothing takes the file of a photo in the table (its storage_path) but a request
\* to delete that photo or its album, through any number of failed and concurrent
\* deletions; and, with --remover-originais, the script, when it has worked on
\* another photo that was added by the URL of that very file: it lists photos by
\* what they show, and removes what they showed.
OnlyCondemnedPhotosLoseTheirFile ==
  [][\A f \in Fotos :
       /\ Existe(f)
       /\ fotos[f].arquivo # Nenhum
       /\ bucket[fotos[f].arquivo] = "existe"
       /\ bucket'[fotos[f].arquivo] # "existe"
       => \/ \E q \in Requests : req[q] # Nenhum /\ f \in req[q].fotos
          \/ /\ Rodando("remover") /\ script.alvo # f
             /\ script.original = fotos[f].arquivo
             /\ fotos[f].arquivo \in copiadas]_varsScript
=============================================================================
