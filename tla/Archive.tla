------------------------------ MODULE Archive ------------------------------
(***************************************************************************)
(* A serving process writes the database in the memory format, page by     *)
(* page and not in one snapshot, while others insert and delete; the file  *)
(* is read into another database that holds some of the records, in        *)
(* chunks, stops half way and is read again.                               *)
(*                                                                         *)
(* A record is its id here.  What a line says of it, and how it is checked *)
(* on the way in, is in Format.                                            *)
(***************************************************************************)
EXTENDS Schema, SequencesExt

CONSTANTS
    Page,       \* records of an export's query: 1000
    Chunk,      \* records of an import's transaction: 256
    Joining,    \* records a link between subjects names (memory_id)
    Held,       \* ids the other database has records of already
    OtherBuild  \* the schema version of the build that imports

ASSUME ArchiveAssumption ==
    /\ Page \in Nat \ {0} /\ Chunk \in Nat \ {0}
    /\ Joining \subseteq RowId /\ Held \subseteq RowId
    /\ OtherBuild \in Nat

VARIABLES
    export,     \* by, at, cursor
    file,       \* header's schema version, records in order, links
    before,     \* history: the records as they were when the export began
    import,     \* at, next: the position in the file
    copy        \* the other database: records own or imported, links

archive == <<export, file, before, import, copy>>

Empty == [schema |-> None, records |-> <<>>, links |-> {}]
NoExport == [by |-> None, at |-> "off", cursor |-> 0]
NoImport == [at |-> "off", next |-> 1]

TypeOK ==
    /\ SchemaTypeOK
    /\ export.at \in {"off", "pages", "links", "done"} /\ export.cursor \in Nat
    /\ Range(file.records) \subseteq RowId /\ file.links \subseteq Joining
    /\ import.at \in {"off", "refused", "records", "links", "failed", "done"}
    /\ copy.own \subseteq RowId /\ copy.imported \subseteq RowId

Init ==
    /\ SchemaInit
    /\ export = NoExport /\ file = Empty /\ before = None
    /\ import = NoImport
    /\ copy = [own |-> Held, imported |-> {}, links |-> {}]

In(stored) == {r \in RowId : stored[r] \notin {"unused", "gone"}}
Live == In(rows)

-----------------------------------------------------------------------------
BeginExport(p) ==
    /\ export.at = "off" /\ Ready(p) /\ Build[p] >= 2
    /\ \A q \in Process : start[q].at \in {"off", "ready"}
    /\ export' = [NoExport EXCEPT !.by = p, !.at = "pages"]
    /\ file' = [Empty EXCEPT !.schema = Build[p]]
    /\ before' = rows
    /\ UNCHANGED <<import, copy>>

InOrder(ids) ==
    CHOOSE s \in [1 .. Cardinality(ids) -> ids] :
        \A i, j \in 1 .. Cardinality(ids) : i < j => s[i] < s[j]

(* Records after the last id of the page before, in the order of ids.      *)
Written(page) ==
    /\ IF page = {}
         THEN export' = [export EXCEPT !.at = "links"] /\ UNCHANGED file
         ELSE /\ export' = [export EXCEPT !.cursor = Max(page)]
              /\ file' = [file EXCEPT !.records = @ \o InOrder(page)]
    /\ UNCHANGED <<before, import, copy>>

First(ids, n) == {r \in ids : Cardinality({s \in ids : s < r}) < n}

\* Mutant: pages by their place instead of the last id.
ExportPageByOffset ==
    /\ export.at = "pages" /\ Ready(export.by)
    /\ Written(First(Live, Len(file.records) + Page) \ First(Live, Len(file.records)))

ExportPage ==
    /\ export.at = "pages" /\ Ready(export.by)
    /\ Written(First({r \in Live : r > export.cursor}, Page))

(* The links there are at the end; a record's deletion takes its links.    *)
ExportLinks ==
    /\ export.at = "links" /\ Ready(export.by)
    /\ export' = [export EXCEPT !.at = "done"]
    /\ file' = [file EXCEPT !.links = Live \cap Joining]
    /\ UNCHANGED <<before, import, copy>>

ExportBreaks ==
    /\ export.at \in {"pages", "links"}
    /\ export' = NoExport /\ file' = Empty /\ before' = None
    /\ UNCHANGED <<import, copy>>

-----------------------------------------------------------------------------
(* A file of a newer schema is refused.                                    *)
BeginImport ==
    /\ export.at = "done" /\ import.at = "off"
    /\ import' = [NoImport EXCEPT
         !.at = IF file.schema > OtherBuild THEN "refused" ELSE "records"]
    /\ UNCHANGED <<export, file, before, copy>>

(* One transaction; ids that are there are left as they are.               *)
Rest == SubSeq(file.records, import.next, Len(file.records))
Skips(ids) == ids \cap (copy.own \cup copy.imported)

\* Mutant: what is left after the last full chunk is forgotten.
ImportFullChunk ==
    /\ import.at = "records"
    /\ LET ids == Range(SubSeq(Rest, 1, Chunk))
       IN  IF Len(Rest) < Chunk
             THEN import' = [import EXCEPT !.at = "links"] /\ UNCHANGED copy
             ELSE /\ copy' = [copy EXCEPT !.imported = @ \cup (ids \ Skips(ids))]
                  /\ import' = [import EXCEPT !.next = @ + Chunk]
    /\ UNCHANGED <<export, file, before>>

ImportChunk ==
    /\ import.at = "records"
    /\ LET n == IF Len(Rest) < Chunk THEN Len(Rest) ELSE Chunk
           ids == Range(SubSeq(Rest, 1, n))
       IN  /\ copy' = [copy EXCEPT !.imported = @ \cup (ids \ Skips(ids))]
           /\ import' = IF n < Chunk THEN [import EXCEPT !.at = "links"]
                        ELSE [import EXCEPT !.next = @ + n]
    /\ UNCHANGED <<export, file, before>>

(* Link by link; one that names a record that is not there fails the       *)
(* import, with the records in.                                            *)
ImportLink ==
    /\ import.at = "links"
    /\ \E l \in file.links \ copy.links :
         IF l \in copy.own \cup copy.imported
           THEN copy' = [copy EXCEPT !.links = @ \cup {l}] /\ UNCHANGED import
           ELSE import' = [import EXCEPT !.at = "failed"] /\ UNCHANGED copy
    /\ UNCHANGED <<export, file, before>>

ImportDone ==
    /\ import.at = "links" /\ file.links \subseteq copy.links
    /\ import' = [import EXCEPT !.at = "done"]
    /\ UNCHANGED <<export, file, before, copy>>

(* A failure or a crash; the file is read again from its start.            *)
ImportBreaks ==
    /\ import.at \in {"records", "links", "failed"}
    /\ import' = NoImport
    /\ UNCHANGED <<export, file, before, copy>>

Archives ==
    \/ \E p \in Process : BeginExport(p)
    \/ ExportPage \/ ExportLinks \/ ExportBreaks
    \/ BeginImport \/ ImportChunk \/ ImportLink \/ ImportDone \/ ImportBreaks

(* Bounds: no process starts or stops while a file is made, for starting   *)
(* leaves the ids of the records alone; records come and go until the file *)
(* is whole.                                                               *)
Next ==
    \/ /\ \E p \in Process : Serves(p) \/ (Starts(p) /\ export.at = "off")
       /\ export.at # "done"
       /\ UNCHANGED archive
    \/ Archives /\ UNCHANGED schema

Spec == Init /\ [][Next]_<<schema, archive>>

-----------------------------------------------------------------------------
(* Records come and go while the pages are read, and still the file has    *)
(* every record that was there the whole time, none twice, and none that   *)
(* was gone before it began.                                               *)
ExportComplete ==
    export.at = "done" =>
        /\ In(before) \cap Live \subseteq Range(file.records)
        /\ IsInjective(file.records)
        /\ \A r \in Range(file.records) : before[r] # "gone"

(* An import that ends has every record and link of the file however often *)
(* it broke off before, and the records the database had are its own.      *)
ImportRepeatable ==
    /\ import.at = "done" =>
         /\ Range(file.records) \subseteq copy.own \cup copy.imported
         /\ file.links \subseteq copy.links
    /\ copy.own = Held /\ copy.imported \cap Held = {}
    /\ copy.links \subseteq copy.own \cup copy.imported
=============================================================================
