---------------------------- MODULE PortableProofs ----------------------------
(***************************************************************************)
(* Proofs about PortableImport, for any file, any tabs and any number of   *)
(* operations and of chunks on their way.                                  *)
(***************************************************************************)
EXTENDS PortableImport, FiniteSetTheorems, TLAPS

\* What a tab thinks of its operation was true of it at some time.
DialogTrue(d, ops) ==
  \/ d = Closed
  \/ \E id \in DOMAIN ops : d = [phase |-> "created", id |-> id]
  \/ \E id \in DOMAIN ops : \E n \in 0 .. ops[id].processed :
       \E phase \in {"sending", "waiting"} : d = [phase |-> phase, id |-> id, processed |-> n]

\* A chunk is consecutive records, and begins with one that was the next of its
\* operation at some time.
ChunkTrue(m, ops) ==
  /\ m = [id |-> m.id, rows |-> m.rows, read |-> m.read, waiting |-> m.waiting]
  /\ m.id \in DOMAIN ops /\ m.waiting \in Tab \cup {NoTab}
  /\ \E first \in Record : \E last \in first .. Len(File) :
       first <= ops[m.id].processed + 1 /\ m.rows = first .. last

\* One operation has counted records, the first ones, and those are stored.
Counted(id) == imports[id].processed > 0
OneImports ==
  /\ \A id, other \in DOMAIN imports : Counted(id) /\ Counted(other) => id = other
  /\ \A id \in DOMAIN imports :
       /\ imports[id].processed <= Len(File)
       /\ Counted(id) => stored = 1 .. imports[id].processed
       /\ imports[id].status = "complete" => Counted(id) /\ imports[id].processed = Len(File)
  /\ (\A id \in DOMAIN imports : ~Counted(id)) => stored = {}

PortableInv ==
  /\ PortableTypeOK
  /\ \A t \in Tab : DialogTrue(tab[t], imports)
  /\ \A m \in wire : ChunkTrue(m, imports)
  /\ OneImports

\* Operations are created and count, and never count back.
Grown(ops, later) ==
  /\ DOMAIN ops \subseteq DOMAIN later
  /\ \A id \in DOMAIN ops : ops[id].processed \in Nat /\ later[id].processed \in Nat
  /\ \A id \in DOMAIN ops : ops[id].processed <= later[id].processed

-----------------------------------------------------------------------------
\* What was true of operations at some time is so when they have grown.
LEMMA DialogStaysTrue ==
  ASSUME NEW ops, NEW later, Grown(ops, later), NEW d, DialogTrue(d, ops)
  PROVE  DialogTrue(d, later)
<1>1. ASSUME NEW id \in DOMAIN ops
      PROVE  id \in DOMAIN later /\ 0 .. ops[id].processed \subseteq 0 .. later[id].processed
  BY DEF Grown
<1>. QED BY <1>1 DEF DialogTrue

\* The same of a chunk.
LEMMA ChunkStaysTrue ==
  ASSUME NEW ops, NEW later, Grown(ops, later), NEW m, ChunkTrue(m, ops)
  PROVE  ChunkTrue(m, later)
<1>1. m.id \in DOMAIN later /\ ops[m.id].processed \in Nat /\ later[m.id].processed \in Nat
      /\ ops[m.id].processed <= later[m.id].processed
  BY DEF Grown, ChunkTrue
<1>2. PICK first \in Record : \E last \in first .. Len(File) :
        first <= ops[m.id].processed + 1 /\ m.rows = first .. last
  BY DEF ChunkTrue
<1>3. first \in Int /\ first <= later[m.id].processed + 1
  BY <1>1, <1>2 DEF Record
<1>. QED BY <1>1, <1>2, <1>3 DEF ChunkTrue

\* The ends of an interval are its least and its greatest element.
LEMMA Ends ==
  ASSUME NEW first \in Nat, NEW last \in Nat, first <= last
  PROVE  Min(first .. last) = first /\ Max(first .. last) = last
<1>1. \A x \in first .. last : first <= x /\ last >= x
  OBVIOUS
<1>2. first \in first .. last /\ last \in first .. last
  OBVIOUS
<1>3. /\ Min(first .. last) \in first .. last
      /\ \A y \in first .. last : Min(first .. last) <= y
  BY <1>1, <1>2 DEF Min
<1>4. /\ Max(first .. last) \in first .. last
      /\ \A y \in first .. last : Max(first .. last) >= y
  BY <1>1, <1>2 DEF Max
<1>. QED BY <1>2, <1>3, <1>4

\* The length of the file, and the numbers that operations and files hold.
LEMMA FileFacts ==
  /\ Len(File) \in Nat
  /\ \A i \in Record : i \in Nat /\ 1 <= i /\ i <= Len(File) /\ File[i] \in Nat
<1>1. File \in Seq(Nat \ {0})
  BY PortableAssumption
<1>. QED BY <1>1 DEF Record

\* The types of the operations.
LEMMA OperationFacts ==
  ASSUME PortableTypeOK
  PROVE  /\ Len(imports) \in Nat /\ DOMAIN imports = 1 .. Len(imports)
         /\ \A id \in DOMAIN imports : imports[id] \in Import /\ imports[id].processed \in Nat
<1>1. imports \in Seq(Import)
  BY DEF PortableTypeOK
<1>2. \A id \in DOMAIN imports : imports[id] \in Import
  BY <1>1
<1>. QED BY <1>1, <1>2 DEF Import

\* A step that leaves operations and records alone keeps what they say.
LEMMA OneImportsStays ==
  ASSUME OneImports, UNCHANGED <<stored, imports>>
  PROVE  OneImports'
  BY DEF OneImports, Counted

\* So that such a step only answers for tabs and chunks.
LEMMA QuietStep ==
  ASSUME PortableInv, UNCHANGED <<stored, imports>>,
         installation' \in [maintenance : BOOLEAN, pools : BOOLEAN],
         saved' \in 0 .. Len(imports), DOMAIN tab' = Tab,
         \A t \in Tab : tab'[t] = tab[t] \/ DialogTrue(tab'[t], imports),
         \A m \in wire' : m \in wire \/ ChunkTrue(m, imports)
  PROVE  PortableInv'
<1>1. \A t \in Tab : DialogTrue(tab'[t], imports)
  BY DEF PortableInv
<1>2. \A m \in wire' : ChunkTrue(m, imports)
  BY DEF PortableInv
<1>3. \A m \in wire' : m.rows \subseteq Record
  BY <1>2, FileFacts DEF ChunkTrue, Record
<1>4. PortableTypeOK'
  BY <1>2, <1>3 DEF PortableInv, PortableTypeOK, ChunkTrue, Record
<1>5. OneImports'
  BY OneImportsStays DEF PortableInv
<1>. QED BY <1>1, <1>2, <1>4, <1>5 DEF PortableInv

-----------------------------------------------------------------------------
\* At first there is no operation.
LEMMA InitInvariant ==
  PortableInit => PortableInv
<1>1. SUFFICES ASSUME PortableInit PROVE PortableInv
  OBVIOUS
<1>2. imports = <<>> /\ DOMAIN imports = {} /\ Len(imports) = 0 /\ imports \in Seq(Import)
  BY <1>1 DEF PortableInit
<1>3. PortableTypeOK
  BY <1>1, <1>2, PortableAssumption DEF PortableInit, PortableTypeOK
<1>4. OneImports
  BY <1>1, <1>2 DEF PortableInit, OneImports
<1>. QED BY <1>1, <1>3, <1>4 DEF PortableInit, PortableInv, DialogTrue

\* What a dialog is, by its phase.
LEMMA CreatedDialog ==
  ASSUME NEW ops, NEW d, DialogTrue(d, ops), d.phase = "created"
  PROVE  d.id \in DOMAIN ops
<1>1. d # Closed
  BY DEF Closed
<1>2. ASSUME NEW id, NEW n, NEW phase \in {"sending", "waiting"},
             d = [phase |-> phase, id |-> id, processed |-> n]
      PROVE  FALSE
  <2>1. d.phase = phase
    BY <1>2
  <2>. QED BY <1>2, <2>1
<1>3. PICK id \in DOMAIN ops : d = [phase |-> "created", id |-> id]
  BY <1>1, <1>2 DEF DialogTrue
<1>4. d.id = id
  BY <1>3
<1>. QED BY <1>4

\* What a dialog that sends knows.
LEMMA SendingDialog ==
  ASSUME NEW ops, NEW d, DialogTrue(d, ops), d.phase = "sending"
  PROVE  \E id \in DOMAIN ops : \E n \in 0 .. ops[id].processed :
           d = [phase |-> "sending", id |-> id, processed |-> n]
<1>1. d # Closed
  BY DEF Closed
<1>2. ASSUME NEW id, d = [phase |-> "created", id |-> id] PROVE FALSE
  <2>1. d.phase = "created"
    BY <1>2
  <2>. QED BY <2>1
<1>3. PICK id \in DOMAIN ops : \E n \in 0 .. ops[id].processed :
        \E phase \in {"sending", "waiting"} : d = [phase |-> phase, id |-> id, processed |-> n]
  BY <1>1, <1>2 DEF DialogTrue
<1>4. PICK n \in 0 .. ops[id].processed :
        \E phase \in {"sending", "waiting"} : d = [phase |-> phase, id |-> id, processed |-> n]
  BY <1>3
<1>5. PICK phase \in {"sending", "waiting"} : d = [phase |-> phase, id |-> id, processed |-> n]
  BY <1>4
<1>6. phase = "sending"
  BY <1>5
<1>. QED BY <1>5, <1>6

\* Consecutive records from the next one on are a chunk.
LEMMA ChunkMade ==
  ASSUME NEW ops, NEW id \in DOMAIN ops, NEW first \in Record, NEW last \in first .. Len(File),
         first <= ops[id].processed + 1, NEW waiting \in Tab \cup {NoTab}, NEW read
  PROVE  ChunkTrue([id |-> id, rows |-> first .. last, read |-> read, waiting |-> waiting], ops)
<1>. DEFINE chunk == [id |-> id, rows |-> first .. last, read |-> read, waiting |-> waiting]
<1>1. chunk.id = id /\ chunk.rows = first .. last /\ chunk.read = read /\ chunk.waiting = waiting
  OBVIOUS
<1>2. chunk = [id |-> chunk.id, rows |-> chunk.rows, read |-> chunk.read, waiting |-> chunk.waiting]
  BY <1>1
<1>3. first <= ops[chunk.id].processed + 1 /\ chunk.id \in DOMAIN ops
  BY <1>1
<1>. HIDE DEF chunk
<1>4. \E f \in Record : \E l \in f .. Len(File) :
        f <= ops[chunk.id].processed + 1 /\ chunk.rows = f .. l
  BY <1>1, <1>3
<1>5. ChunkTrue(chunk, ops)
  BY <1>1, <1>2, <1>3, <1>4 DEF ChunkTrue
<1>. QED BY <1>5 DEF chunk

\* The steps of a tab that send or close nothing at the service.
LEMMA ResumeInvariant ==
  ASSUME PortableInv, NEW t \in Tab, ResumeImport(t)
  PROVE  PortableInv'
<1>1. saved \in DOMAIN imports /\ imports[saved].processed \in Nat
  BY OperationFacts DEF PortableInv, ResumeImport, PortableTypeOK
<1>2. DialogTrue(Sending(saved, imports[saved].processed), imports)
  BY <1>1 DEF DialogTrue, Sending
<1>3. tab' = [tab EXCEPT ![t] = Sending(saved, imports[saved].processed)]
  BY DEF ResumeImport, Enter
<1>4. DOMAIN tab' = Tab /\ \A u \in Tab : tab'[u] = tab[u] \/ DialogTrue(tab'[u], imports)
  BY <1>2, <1>3 DEF PortableInv, PortableTypeOK
<1>. QED BY <1>4, QuietStep DEF PortableInv, PortableTypeOK, ResumeImport

\* An operation is remembered in the browser,
LEMMA SaveInvariant ==
  ASSUME PortableInv, NEW t \in Tab, SaveImport(t)
  PROVE  PortableInv'
<1>1. DialogTrue(tab[t], imports) /\ tab[t].phase = "created"
  BY DEF PortableInv, SaveImport
<1>2. tab[t].id \in DOMAIN imports
  BY <1>1, CreatedDialog
<1>3. imports[tab[t].id].processed \in Nat /\ tab[t].id \in 0 .. Len(imports)
  BY <1>2, OperationFacts DEF PortableInv
<1>4. DialogTrue(Sending(tab[t].id, 0), imports)
  BY <1>2, <1>3 DEF DialogTrue, Sending
<1>5. tab' = [tab EXCEPT ![t] = Sending(tab[t].id, 0)]
  BY DEF SaveImport, Enter
<1>6. DOMAIN tab' = Tab /\ \A u \in Tab : tab'[u] = tab[u] \/ DialogTrue(tab'[u], imports)
  BY <1>4, <1>5 DEF PortableInv, PortableTypeOK
<1>. QED BY <1>3, <1>6, QuietStep DEF PortableInv, PortableTypeOK, SaveImport

\* a chunk is sent,
LEMMA SendInvariant ==
  ASSUME PortableInv, NEW t \in Tab, SendChunk(t)
  PROVE  PortableInv'
<1>1. DialogTrue(tab[t], imports) /\ tab[t].phase = "sending"
  BY DEF PortableInv, SendChunk
<1>2. PICK id \in DOMAIN imports : \E n \in 0 .. imports[id].processed :
        tab[t] = [phase |-> "sending", id |-> id, processed |-> n]
  BY <1>1, SendingDialog
<1>3. PICK n \in 0 .. imports[id].processed :
        tab[t] = [phase |-> "sending", id |-> id, processed |-> n]
  BY <1>2
<1>4. imports[id].processed \in Nat
  BY OperationFacts DEF PortableInv
<1>5. n + 1 \in Record /\ n + 1 <= imports[id].processed + 1
  BY <1>3, <1>4 DEF SendChunk
<1>6. PICK last \in {i \in Record : i >= n + 1 /\ File[i] = File[n + 1]} :
        wire' = wire \cup {[id |-> id, rows |-> n + 1 .. last, read |-> <<>>, waiting |-> t]}
  BY <1>3 DEF SendChunk
<1>7. last \in n + 1 .. Len(File)
  BY <1>3, <1>4, <1>6, FileFacts DEF Record
<1>. DEFINE chunk == [id |-> id, rows |-> n + 1 .. last, read |-> <<>>, waiting |-> t]
<1>8. ChunkTrue(chunk, imports)
  BY <1>5, <1>7, ChunkMade
<1>9. tab' = [tab EXCEPT ![t] = [phase |-> "waiting", id |-> id, processed |-> n]]
  <2>1. [tab[t] EXCEPT !.phase = "waiting"] = [phase |-> "waiting", id |-> id, processed |-> n]
    BY <1>3
  <2>2. tab' = [tab EXCEPT ![t] = [tab[t] EXCEPT !.phase = "waiting"]]
    BY DEF SendChunk, Enter
  <2>. QED BY <2>1, <2>2
<1>10. DialogTrue([phase |-> "waiting", id |-> id, processed |-> n], imports)
  BY <1>3 DEF DialogTrue
<1>11. DOMAIN tab' = Tab /\ \A u \in Tab : tab'[u] = tab[u] \/ DialogTrue(tab'[u], imports)
  BY <1>9, <1>10 DEF PortableInv, PortableTypeOK
<1>12. \A m \in wire' : m \in wire \/ ChunkTrue(m, imports)
  <2>1. wire' = wire \cup {chunk}
    BY <1>6
  <2>. HIDE DEF chunk
  <2>. QED BY <1>8, <2>1
<1>. QED BY <1>11, <1>12, QuietStep DEF PortableInv, PortableTypeOK, SendChunk

\* the dialog is closed,
LEMMA CloseInvariant ==
  ASSUME PortableInv, NEW t \in Tab, CloseImport(t)
  PROVE  PortableInv'
<1>1. tab' = [tab EXCEPT ![t] = Closed]
  BY DEF CloseImport, Enter
<1>2. DOMAIN tab' = Tab /\ \A u \in Tab : tab'[u] = tab[u] \/ DialogTrue(tab'[u], imports)
  BY <1>1 DEF PortableInv, PortableTypeOK, DialogTrue
<1>3. ASSUME NEW m \in wire PROVE ChunkTrue([m EXCEPT !.waiting = NoTab], imports)
  BY <1>3 DEF PortableInv, ChunkTrue
<1>4. \A m \in wire' : m \in wire \/ ChunkTrue(m, imports)
  BY <1>3 DEF CloseImport
<1>. QED BY <1>2, <1>4, QuietStep DEF PortableInv, PortableTypeOK, CloseImport

\* a chunk is lost,
LEMMA LoseInvariant ==
  ASSUME PortableInv, NEW m \in wire, LoseChunk(m)
  PROVE  PortableInv'
<1>1. DOMAIN tab' = Tab /\ \A u \in Tab : tab'[u] = tab[u] \/ DialogTrue(tab'[u], imports)
  BY DEF LoseChunk, DialogTrue
<1>. QED BY <1>1, QuietStep DEF PortableInv, PortableTypeOK, LoseChunk

\* a chunk reads its operation,
LEMMA ReadInvariant ==
  ASSUME PortableInv, NEW m \in wire, ReadImport(m)
  PROVE  PortableInv'
<1>1. ChunkTrue([m EXCEPT !.read = <<imports[m.id].processed>>], imports)
  BY DEF PortableInv, ChunkTrue
<1>2. \A c \in wire' : c \in wire \/ ChunkTrue(c, imports)
  BY <1>1 DEF ReadImport
<1>. QED BY <1>2, QuietStep DEF PortableInv, PortableTypeOK, ReadImport

\* and others change the installation.
LEMMA OthersInvariant ==
  ASSUME PortableInv, SetMaintenance \/ AddPool
  PROVE  PortableInv'
<1>1. installation' \in [maintenance : BOOLEAN, pools : BOOLEAN]
  BY DEF PortableInv, PortableTypeOK, SetMaintenance, AddPool
<1>. QED BY <1>1, QuietStep DEF PortableInv, PortableTypeOK, SetMaintenance, AddPool

-----------------------------------------------------------------------------
\* The steps that change operations.
LEMMA GrownStep ==
  ASSUME PortableInv, Grown(imports, imports'),
         imports' \in Seq(Import), Len(imports') <= MaxPreviews,
         stored' \subseteq Record, UNCHANGED <<installation, saved>>, DOMAIN tab' = Tab,
         \A t \in Tab : tab'[t] = tab[t] \/ DialogTrue(tab'[t], imports'),
         wire' \subseteq wire, OneImports'
  PROVE  PortableInv'
<1>1. \A t \in Tab : DialogTrue(tab'[t], imports')
  BY DialogStaysTrue DEF PortableInv
<1>2. \A m \in wire' : ChunkTrue(m, imports')
  BY ChunkStaysTrue DEF PortableInv
<1>3. saved' \in 0 .. Len(imports')
  <2>1. saved \in 0 .. Len(imports) /\ 1 .. Len(imports) \subseteq DOMAIN imports'
    BY OperationFacts DEF PortableInv, PortableTypeOK, Grown
  <2>2. DOMAIN imports' = 1 .. Len(imports') /\ Len(imports') \in Nat /\ Len(imports) \in Nat
    BY OperationFacts DEF PortableInv
  <2>. QED BY <2>1, <2>2
<1>4. PortableTypeOK'
  BY <1>2, <1>3 DEF PortableInv, PortableTypeOK, ChunkTrue
<1>. QED BY <1>1, <1>2, <1>4 DEF PortableInv

\* A new operation has counted nothing.
LEMMA PreviewInvariant ==
  ASSUME PortableInv, NEW t \in Tab, PreviewImport(t)
  PROVE  PortableInv'
<1>. DEFINE new == [status |-> "preview", processed |-> 0, table |-> 0]
            ids == DOMAIN imports
            id == Len(imports) + 1
<1>1. new \in Import /\ imports \in Seq(Import) /\ imports' = Append(imports, new)
  BY DEF PortableInv, PortableTypeOK, Import, PreviewImport
<1>2. /\ Len(imports) \in Nat /\ ids = 1 .. Len(imports)
      /\ \A i \in ids : imports[i].processed \in Nat
  BY OperationFacts DEF PortableInv
<1>3. /\ imports' \in Seq(Import) /\ Len(imports') = id /\ DOMAIN imports' = ids \cup {id}
      /\ id \notin ids /\ imports'[id] = new /\ \A i \in ids : imports'[i] = imports[i]
  BY <1>1, <1>2
<1>. HIDE DEF new
<1>4. Grown(imports, imports')
  BY <1>2, <1>3 DEF Grown
<1>5. Len(imports') <= MaxPreviews
  BY <1>2, <1>3, PortableAssumption DEF PreviewImport
<1>6. DialogTrue([phase |-> "created", id |-> id], imports')
  BY <1>3 DEF DialogTrue
<1>7. tab' = [tab EXCEPT ![t] = [phase |-> "created", id |-> id]]
  BY DEF PreviewImport, Enter
<1>8. DOMAIN tab' = Tab /\ \A u \in Tab : tab'[u] = tab[u] \/ DialogTrue(tab'[u], imports')
  BY <1>6, <1>7 DEF PortableInv, PortableTypeOK
<1>9. OneImports'
  <2>1. new.processed = 0 /\ new.status = "preview" /\ stored' = stored /\ Len(File) \in Nat
    BY FileFacts DEF new, PreviewImport
  <2>2. OneImports
    BY DEF PortableInv
  <2>. QED BY <1>2, <1>3, <2>1, <2>2 DEF OneImports, Counted
<1>. QED BY <1>3, <1>4, <1>5, <1>8, <1>9, GrownStep DEF PortableInv, PortableTypeOK, PreviewImport

\* A cancelled operation keeps what it counted.
LEMMA CancelInvariant ==
  ASSUME PortableInv, NEW id \in DOMAIN imports, CancelImport(id)
  PROVE  PortableInv'
<1>1. imports' = [imports EXCEPT ![id].status = "cancelled"]
  BY DEF CancelImport
<1>2. /\ Len(imports) \in Nat /\ DOMAIN imports = 1 .. Len(imports)
      /\ \A i \in DOMAIN imports : imports[i] \in Import /\ imports[i].processed \in Nat
  BY OperationFacts DEF PortableInv
<1>3. imports' \in Seq(Import) /\ Len(imports') = Len(imports) /\ DOMAIN imports' = DOMAIN imports
  BY <1>1, <1>2 DEF PortableInv, PortableTypeOK, Import
<1>4. \A i \in DOMAIN imports : /\ imports'[i].processed = imports[i].processed
                                /\ imports'[i].status = "complete" => imports[i].status = "complete"
  BY <1>1, <1>2 DEF Import
<1>5. Grown(imports, imports')
  BY <1>2, <1>3, <1>4 DEF Grown
<1>6. OneImports'
  BY <1>3, <1>4 DEF PortableInv, OneImports, Counted, CancelImport
<1>. QED BY <1>3, <1>5, <1>6, GrownStep DEF PortableInv, PortableTypeOK, CancelImport

\* A chunk that fits is the next one of the operation that imports: it has none
\* of the records before, and none is left out between them and it.
LEMMA ChunkFollows ==
  ASSUME PortableInv, NEW m \in wire, ImportChunk(m)
  PROVE  LET done == imports[m.id].processed
             last == done + Cardinality(m.rows)
         IN  /\ done \in Nat /\ last \in Nat /\ done < last /\ last <= Len(File)
             /\ m.rows = done + 1 .. last /\ Min(m.rows) = done + 1 /\ Max(m.rows) = last
             /\ stored = 1 .. done
             /\ \A id \in DOMAIN imports : Counted(id) => id = m.id
<1>. DEFINE done == imports[m.id].processed
<1>1. m.id \in DOMAIN imports /\ done \in Nat
  BY OperationFacts DEF PortableInv, ChunkTrue
<1>2. PICK first \in Record : \E last \in first .. Len(File) : first <= done + 1 /\ m.rows = first .. last
  BY DEF PortableInv, ChunkTrue
<1>3. PICK last \in first .. Len(File) : first <= done + 1 /\ m.rows = first .. last
  BY <1>2
<1>4. first \in Nat /\ 1 <= first /\ last \in Nat /\ first <= last /\ last <= Len(File)
  BY <1>3, FileFacts DEF Record
<1>5. first \in m.rows /\ first \notin stored
  BY <1>3, <1>4 DEF ImportChunk, Insertable
<1>6. \A id \in DOMAIN imports : Counted(id) => id = m.id
  <2>1. SUFFICES ASSUME NEW id \in DOMAIN imports, Counted(id), id # m.id PROVE FALSE
    OBVIOUS
  <2>2. ~Counted(m.id) /\ stored = 1 .. imports[id].processed /\ imports[id].processed \in Nat
    BY <1>1, <2>1, OperationFacts DEF PortableInv, OneImports
  <2>3. first = 1
    BY <1>1, <1>3, <1>4, <2>2 DEF Counted
  <2>. QED BY <1>5, <2>1, <2>2, <2>3 DEF Counted
<1>7. stored = 1 .. done
  <2>1. CASE Counted(m.id)
    BY <1>1, <2>1 DEF PortableInv, OneImports
  <2>2. CASE ~Counted(m.id)
    <3>1. done = 0
      BY <1>1, <2>2 DEF Counted
    <3>2. stored = {}
      BY <1>6, <2>2 DEF PortableInv, OneImports
    <3>. QED BY <3>1, <3>2
  <2>. QED BY <2>1, <2>2
<1>8. first = done + 1
  BY <1>1, <1>3, <1>4, <1>5, <1>7
<1>9. Cardinality(m.rows) = last - first + 1
  BY <1>3, <1>4, FS_Interval
<1>10. last = done + Cardinality(m.rows)
  BY <1>1, <1>4, <1>8, <1>9
<1>11. Min(m.rows) = first /\ Max(m.rows) = last
  BY <1>3, <1>4, Ends
<1>. QED BY <1>1, <1>3, <1>4, <1>6, <1>7, <1>8, <1>10, <1>11

\* A chunk is imported: its operation counts what is stored with it.
LEMMA ImportInvariant ==
  ASSUME PortableInv, NEW m \in wire, ImportChunk(m)
  PROVE  PortableInv'
<1>. DEFINE id == m.id
            done == imports[id].processed
            last == done + Cardinality(m.rows)
            row == [status |-> IF last >= Len(File) THEN "complete" ELSE "applying",
                    processed |-> last, table |-> File[Min(m.rows)]]
<1>1. /\ done \in Nat /\ last \in Nat /\ done < last /\ last <= Len(File)
      /\ m.rows = done + 1 .. last /\ Min(m.rows) = done + 1 /\ Max(m.rows) = last
      /\ stored = 1 .. done
      /\ \A other \in DOMAIN imports : Counted(other) => other = id
  BY ChunkFollows
<1>2. id \in DOMAIN imports /\ ChunkTrue(m, imports)
  BY DEF PortableInv, ChunkTrue
<1>3. /\ imports' = [imports EXCEPT ![id] = row] /\ stored' = stored \cup m.rows
      /\ wire' = wire \ {m} /\ UNCHANGED <<installation, saved>>
      /\ tab' = [t \in Tab |-> IF t = m.waiting THEN Sending(id, Max(m.rows)) ELSE tab[t]]
  BY DEF ImportChunk
<1>4. row \in Import /\ row.processed = last /\ (row.status = "complete" => last >= Len(File))
  <2>1. done + 1 \in Record
    BY <1>1, FileFacts DEF Record
  <2>2. File[Min(m.rows)] \in Nat
    BY <1>1, <2>1, FileFacts
  <2>. QED BY <1>1, <2>2 DEF Import
<1>. HIDE DEF row
<1>5. /\ Len(imports) \in Nat /\ DOMAIN imports = 1 .. Len(imports)
      /\ \A i \in DOMAIN imports : imports[i].processed \in Nat
  BY OperationFacts DEF PortableInv
<1>6. /\ imports' \in Seq(Import) /\ Len(imports') = Len(imports) /\ DOMAIN imports' = DOMAIN imports
      /\ imports'[id] = row /\ \A i \in DOMAIN imports : i # id => imports'[i] = imports[i]
  BY <1>2, <1>3, <1>4, <1>5 DEF PortableInv, PortableTypeOK
<1>. HIDE DEF last
<1>7. Grown(imports, imports')
  <2>1. imports[id].processed <= imports'[id].processed
    BY <1>1, <1>4, <1>6
  <2>. QED BY <1>1, <1>4, <1>5, <1>6, <2>1 DEF Grown
<1>8. stored' = 1 .. last /\ stored' \subseteq Record
  BY <1>1, <1>3, FileFacts DEF Record
<1>9. DialogTrue(Sending(id, Max(m.rows)), imports')
  BY <1>1, <1>2, <1>4, <1>6 DEF DialogTrue, Sending
<1>10. DOMAIN tab' = Tab /\ \A u \in Tab : tab'[u] = tab[u] \/ DialogTrue(tab'[u], imports')
  BY <1>3, <1>9
<1>11. OneImports'
  <2>1. \A i \in DOMAIN imports : i # id => imports[i].processed = 0 /\ imports[i].status # "complete"
    BY <1>1, <1>5 DEF PortableInv, OneImports, Counted
  <2>2. last > 0 /\ Len(File) \in Nat
    BY <1>1, FileFacts
  <2>3. row.status = "complete" => last = Len(File)
    BY <1>1, <1>4, <2>2
  <2>. QED BY <1>1, <1>2, <1>4, <1>6, <1>8, <2>1, <2>2, <2>3 DEF OneImports, Counted
<1>12. Len(imports') <= MaxPreviews
  BY <1>6 DEF PortableInv, PortableTypeOK
<1>. QED BY <1>3, <1>6, <1>7, <1>8, <1>10, <1>11, <1>12, GrownStep

-----------------------------------------------------------------------------
\* Every step keeps the invariant,
LEMMA NextInvariant ==
  PortableInv /\ [PortableNext]_portableVars => PortableInv'
<1>1. SUFFICES ASSUME PortableInv, [PortableNext]_portableVars PROVE PortableInv'
  OBVIOUS
<1>2. CASE UNCHANGED portableVars
  BY <1>1, <1>2, QuietStep DEF portableVars, PortableInv, PortableTypeOK
<1>3. ASSUME NEW t \in Tab,
             ResumeImport(t) \/ PreviewImport(t) \/ SaveImport(t) \/ SendChunk(t) \/ CloseImport(t)
      PROVE  PortableInv'
  BY <1>1, <1>3, ResumeInvariant, PreviewInvariant, SaveInvariant, SendInvariant, CloseInvariant
<1>4. ASSUME NEW m \in wire, LoseChunk(m) \/ ReadImport(m) \/ ImportChunk(m)
      PROVE  PortableInv'
  BY <1>1, <1>4, LoseInvariant, ReadInvariant, ImportInvariant
<1>5. ASSUME NEW id \in DOMAIN imports, CancelImport(id) PROVE PortableInv'
  BY <1>1, <1>5, CancelInvariant
<1>6. CASE SetMaintenance \/ AddPool
  BY <1>1, <1>6, OthersInvariant
<1>. QED BY <1>1, <1>2, <1>3, <1>4, <1>5, <1>6 DEF PortableNext

\* so it always holds.
LEMMA Importing ==
  PortableSpec => []PortableInv
BY InitInvariant, NextInvariant, PTL DEF PortableSpec

\* The part of the file that one operation has counted is what is stored.
LEMMA PrefixStored ==
  PortableInv => ImportedInOrder
<1>1. SUFFICES ASSUME PortableInv PROVE ImportedInOrder
  OBVIOUS
<1>. DEFINE counted == {id \in DOMAIN imports : imports[id].processed > 0}
<1>2. OneImports
  BY <1>1 DEF PortableInv
<1>3. counted = {id \in DOMAIN imports : Counted(id)}
  BY DEF Counted
<1>4. CASE counted = {}
  <2>1. \A id \in DOMAIN imports : ~Counted(id)
    BY <1>3, <1>4
  <2>2. stored = {} /\ \A id \in DOMAIN imports : imports[id].status # "complete"
    BY <1>2, <2>1 DEF OneImports
  <2>3. Cardinality(counted) = 0 /\ UNION {1 .. imports[id].processed : id \in counted} = {}
    BY <1>4, FS_EmptySet
  <2>. QED BY <2>2, <2>3 DEF ImportedInOrder
<1>5. CASE counted # {}
  <2>1. PICK id \in DOMAIN imports : Counted(id)
    BY <1>3, <1>5
  <2>2. counted = {id}
    BY <1>2, <1>3, <2>1 DEF OneImports
  <2>3. stored = 1 .. imports[id].processed
    BY <1>2, <2>1 DEF OneImports
  <2>4. Cardinality(counted) <= 1
    <3>1. Cardinality(counted) = 1
      BY <2>2, FS_Singleton
    <3>. QED BY <3>1
  <2>5. stored = UNION {1 .. imports[i].processed : i \in counted}
    <3>1. {1 .. imports[i].processed : i \in counted} = {1 .. imports[id].processed}
      BY <2>2
    <3>. QED BY <2>3, <3>1
  <2>6. \A i \in DOMAIN imports : imports[i].status = "complete" => stored = Record
    BY <1>2, <2>1, <2>3 DEF OneImports, Record
  <2>. QED BY <2>4, <2>5, <2>6 DEF ImportedInOrder
<1>. QED BY <1>4, <1>5

\* What is stored is records of the file, and a chunk on its way is for an
\* operation that was created.  (portable.ts:153)
THEOREM PortableTypes ==
  PortableSpec => []PortableTypeOK
<1>1. PortableInv => PortableTypeOK
  BY DEF PortableInv
<1>. QED BY <1>1, Importing, PTL

\* However often chunks are repeated, delayed and sent from several tabs, what
\* is imported is the beginning of the file, counted by one operation, and the
\* import is complete only with the last record.  (portable.ts:153)
THEOREM FileImportedInOrder ==
  PortableSpec => []ImportedInOrder
BY Importing, PrefixStored, PTL
=============================================================================
