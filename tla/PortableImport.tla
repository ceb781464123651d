---------------------------- MODULE PortableImport ----------------------------
(***************************************************************************)
(* The import of a portable file into an empty installation: the handlers  *)
(* of portable.ts, and the loop of the browser that sends the file chunk   *)
(* by chunk (portableImport of transfer.ts), which can be closed, opened   *)
(* again and run in several tabs at once.  Requests may be delayed beyond  *)
(* the tab that sent them; a repeated one is the subject of Receipts.      *)
(*                                                                         *)
(* A record is its position in the file.  The keys of the tables refuse a  *)
(* record that is there already.                                           *)
(***************************************************************************)
EXTENDS Integers, FiniteSets, FiniteSetsExt, Sequences

CONSTANTS
  File,         \* for every record the rank of its table
  PoolTable,    \* the rank of pools
  Tab,
  MaxPreviews,  \* operations
  MaxFlight,    \* requests on their way
  NoTab         \* nobody waits for an answer

ASSUME PortableAssumption ==
  /\ File \in Seq(Nat \ {0}) /\ \A i \in 1 .. Len(File) - 1 : File[i] <= File[i + 1]
  /\ MaxPreviews \in Nat /\ MaxFlight \in Nat /\ NoTab \notin Tab

VARIABLES
  stored,        \* records of the file that are in their tables
  imports,       \* operations of kind 'portable', in the order of creation
  installation,  \* maintenance, and whether it has pools of its own
  saved,         \* the id that localStorage keeps for the file, 0 if none
  tab,           \* each tab's dialog
  wire           \* chunks sent and not answered

portableVars == <<stored, imports, installation, saved, tab, wire>>

Record == 1 .. Len(File)
Closed == [phase |-> "closed"]
Import == [status : {"preview", "applying", "complete", "cancelled"}, processed : Nat, table : Nat]

PortableTypeOK ==
  /\ stored \subseteq Record
  /\ imports \in Seq(Import) /\ Len(imports) <= MaxPreviews
  /\ installation \in [maintenance : BOOLEAN, pools : BOOLEAN]
  /\ saved \in 0 .. Len(imports)
  /\ DOMAIN tab = Tab
  /\ \A m \in wire : m.id \in DOMAIN imports /\ m.rows \subseteq Record /\ m.waiting \in Tab \cup {NoTab}

PortableInit ==
  /\ stored = {} /\ imports = <<>> /\ saved = 0 /\ wire = {}
  /\ installation = [maintenance |-> TRUE, pools |-> FALSE]
  /\ tab = [t \in Tab |-> Closed]

Sending(id, processed) == [phase |-> "sending", id |-> id, processed |-> processed]
Enter(t, phase) == tab' = [tab EXCEPT ![t] = phase]

-----------------------------------------------------------------------------
(* The browser.                                                            *)

\* The progress of an operation kept for this file is asked for first.
ResumeImport(t) ==
  /\ tab[t] = Closed /\ saved # 0 /\ imports[saved].status # "complete"
  /\ Enter(t, Sending(saved, imports[saved].processed))
  /\ UNCHANGED <<stored, imports, installation, saved, wire>>

\* Without one it creates an operation, portableImportPreview.
PreviewImport(t) ==
  /\ tab[t] = Closed /\ saved = 0 /\ Len(imports) < MaxPreviews
  /\ installation.maintenance
  /\ ~installation.pools /\ \A i \in stored : File[i] # PoolTable
  /\ imports' = Append(imports, [status |-> "preview", processed |-> 0, table |-> 0])
  /\ Enter(t, [phase |-> "created", id |-> Len(imports) + 1])
  /\ UNCHANGED <<stored, installation, saved, wire>>

\* The answer arrives; between the question and it another tab may have saved.
SaveImport(t) ==
  /\ tab[t].phase = "created"
  /\ saved' = tab[t].id /\ Enter(t, Sending(tab[t].id, 0))
  /\ UNCHANGED <<stored, imports, installation, wire>>

\* A chunk is the next records of one table, as many as fit.
SendChunk(t) ==
  LET next == tab[t].processed + 1
  IN  /\ tab[t].phase = "sending" /\ next \in Record /\ Cardinality(wire) < MaxFlight
      /\ \E last \in {i \in Record : i >= next /\ File[i] = File[next]} :
           wire' = wire \cup {[id |-> tab[t].id, rows |-> next .. last, read |-> <<>>, waiting |-> t]}
      /\ Enter(t, [tab[t] EXCEPT !.phase = "waiting"])
      /\ UNCHANGED <<stored, imports, installation, saved>>

\* The dialog is closed, the page reloaded or an answer lost.  Of equal
\* requests that nobody waits for, one is kept.
CloseImport(t) ==
  /\ tab[t] # Closed
  /\ Enter(t, Closed)
  /\ wire' = {IF m.waiting = t THEN [m EXCEPT !.waiting = NoTab] ELSE m : m \in wire}
  /\ UNCHANGED <<stored, imports, installation, saved>>

\* A request is lost or refused, and the tab that waits for it shows an error.
LoseChunk(m) ==
  /\ wire' = wire \ {m}
  /\ tab' = [t \in Tab |-> IF t = m.waiting THEN Closed ELSE tab[t]]
  /\ UNCHANGED <<stored, imports, installation, saved>>

-----------------------------------------------------------------------------
(* portableImportChunk.                                                    *)
Open(status) == status \in {"preview", "applying"}

ReadImport(m) ==
  LET op == imports[m.id]
  IN  /\ m.read = <<>>
      /\ Open(op.status) /\ op.processed + Cardinality(m.rows) <= Len(File)
      /\ File[Min(m.rows)] >= op.table
      /\ wire' = (wire \ {m}) \cup {[m EXCEPT !.read = <<op.processed>>]}
      /\ UNCHANGED <<stored, imports, installation, saved, tab>>

\* Mutation: a record that is there already is skipped.
InsertableIgnoring(rows) == TRUE

Insertable(rows) == rows \cap stored = {}

ImportChunk(m) ==
  LET op == imports[m.id]
      processed == op.processed + Cardinality(m.rows)
  IN  /\ m.read # <<>>
      /\ installation.maintenance
      /\ op.processed = m.read[1] /\ Open(op.status)
      /\ Insertable(m.rows)
      /\ stored' = stored \cup m.rows
      /\ imports' = [imports EXCEPT ![m.id] =
           [status |-> IF processed >= Len(File) THEN "complete" ELSE "applying",
            processed |-> processed, table |-> File[Min(m.rows)]]]
      /\ wire' = wire \ {m}
      /\ tab' = [t \in Tab |-> IF t = m.waiting THEN Sending(m.id, Max(m.rows)) ELSE tab[t]]
      /\ UNCHANGED <<installation, saved>>

-----------------------------------------------------------------------------
(* Everybody else.                                                         *)
CancelImport(id) ==
  /\ imports[id].status # "cancelled"
  /\ imports' = [imports EXCEPT ![id].status = "cancelled"]
  /\ UNCHANGED <<stored, installation, saved, tab, wire>>

SetMaintenance ==
  /\ installation' = [installation EXCEPT !.maintenance = ~@]
  /\ UNCHANGED <<stored, imports, saved, tab, wire>>

AddPool ==
  /\ ~installation.maintenance /\ ~installation.pools
  /\ installation' = [installation EXCEPT !.pools = TRUE]
  /\ UNCHANGED <<stored, imports, saved, tab, wire>>

PortableNext ==
  \/ \E t \in Tab :
       ResumeImport(t) \/ PreviewImport(t) \/ SaveImport(t) \/ SendChunk(t) \/ CloseImport(t)
  \/ \E m \in wire : LoseChunk(m) \/ ReadImport(m) \/ ImportChunk(m)
  \/ \E id \in DOMAIN imports : CancelImport(id)
  \/ SetMaintenance \/ AddPool

PortableSpec == PortableInit /\ [][PortableNext]_portableVars

-----------------------------------------------------------------------------
\* Whatever is repeated, delayed, closed and opened again, in as many tabs and
\* operations as there are, what is imported is the beginning of the file: no
\* record is left out, one operation has counted all of them, and it is
\* complete only with the last.  (portable.ts:153)
ImportedInOrder ==
  LET counted == {id \in DOMAIN imports : imports[id].processed > 0}
  IN  /\ Cardinality(counted) <= 1
      /\ stored = UNION {1 .. imports[id].processed : id \in counted}
      /\ \A id \in DOMAIN imports : imports[id].status = "complete" => stored = Record
=============================================================================
