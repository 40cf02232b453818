----------------------------- MODULE ToolRoutes -----------------------------
(***************************************************************************)
(* The tool routes of the dashboard's server: run/code-analysis with       *)
(* guardmesh-read-workspace-files.ts, run/read-file and run/query-db. What *)
(* they read may change at any time, so each step finds what is there by   *)
(* then: a file at its stat and again at its read, the documents of the    *)
(* database, which is external like the chat API. Lengths are in units; a  *)
(* character of a text is one byte.                                        *)
(***************************************************************************)
EXTENDS Integers, Sequences

CONSTANTS
  File,         \* readable paths under the workspace root
  MaxSize,      \* bound on the size of a file
  MaxFiles,     \* MAX_FILES
  FileCap,      \* MAX_BYTES_PER_FILE
  TotalCap,     \* MAX_TOTAL_BYTES
  CombinedCap,  \* MAX_COMBINED_CHARS
  Header, Sep,  \* lengths of the line before a file and of the gap between two
  Reserve,      \* the 64 characters left for the notice
  Notice,       \* length of the notice at the end of a truncated text
  StoreCap,     \* MAX_CODE_STORE
  ReadCap,      \* MAX_FILE_BYTES of read-file
  DirCap,       \* MAX_DIRECTORY_ENTRIES
  SampleCap, DefaultSample,  \* MAX_SAMPLE_LIMIT, and the limit when none is given
  DocCap        \* MAX_RESULT_DOCS

ASSUME RoutesAssumption ==
  /\ {MaxSize, MaxFiles, FileCap, TotalCap, CombinedCap, Header, Sep, Reserve, Notice,
      StoreCap, ReadCap, DirCap, SampleCap, DefaultSample, DocCap} \subseteq Nat
  /\ Notice <= Reserve

VARIABLES
  job,     \* the request being served
  rows,    \* what its answer gives of each thing read
  stored   \* the store of the last analysis: length of its code, none before

routeVars == <<job, rows, stored>>

\* What a path may be: a text, other bytes, a directory, or nothing.
DiskEntry ==
  [kind : {"text", "bytes"}, size : 0 .. MaxSize]
    \cup [kind : {"dir"}, size : 0 .. DirCap + 1] \cup [kind : {"absent"}, size : {0}]

NoJob == [pc |-> "idle", paths |-> <<>>, inline |-> 0, total |-> 0, combined |-> 0,
          limit |-> 0]

\* given: how much of it the answer holds; there: how much there was when read.
Row == [given : Nat, there : Nat, truncated : BOOLEAN]

RoutesTypeOK ==
  /\ job.paths \in Seq(File) /\ job.total \in 0 .. TotalCap
  /\ rows \in Seq(Row)
  /\ stored \in -1 .. StoreCap + Notice

RoutesInit ==
  /\ job = NoJob
  /\ rows = <<>>
  /\ stored = -1

AtMostOf(a, b) == IF a < b THEN a ELSE b

Serves(next) == job' = next

\* An error is answered: nothing of what was read goes out.
Fails ==
  /\ job.pc # "idle"
  /\ Serves(NoJob) /\ rows' = <<>> /\ UNCHANGED stored

-----------------------------------------------------------------------------
(* run/code-analysis                                                       *)

\* An authorized request with an agent and an API key; paths are distinct.
AskAnalysis(paths, inline) ==
  /\ job.pc = "idle"
  /\ paths # <<>> \/ inline > 0
  /\ Len(paths) <= MaxFiles
  /\ Serves([NoJob EXCEPT !.pc = IF paths = <<>> THEN "model" ELSE "stat",
                          !.paths = paths, !.inline = inline])
  /\ rows' = <<>> /\ UNCHANGED stored

\* The caps on bytes are those of the stat of the first path left.
StatSource(entry) ==
  /\ job.pc = "stat"
  /\ entry.kind \in {"text", "bytes"}
  /\ entry.size <= FileCap /\ job.total + entry.size <= TotalCap
  /\ Serves([job EXCEPT !.pc = "read", !.total = @ + entry.size])
  /\ UNCHANGED <<rows, stored>>

Gap == IF rows = <<>> THEN 0 ELSE Sep

\* Mutant: no room is left for the notice.
Mut_NoReserve == CombinedCap - job.combined - Gap - Header

Room == CombinedCap - job.combined - Gap - Header - Reserve

\* Bytes that are no text, and no room left, are errors.
ReadSource(entry) ==
  /\ job.pc = "read"
  /\ entry.kind = "text" /\ Room > 0
  /\ LET cut  == entry.size > Room
         kept == AtMostOf(entry.size, Room)
         rest == Tail(job.paths)
     IN /\ rows' = Append(rows, [given |-> kept, there |-> entry.size, truncated |-> cut])
        /\ Serves([job EXCEPT
             !.pc = IF rest = <<>> THEN "model" ELSE "stat", !.paths = rest,
             !.combined = @ + Gap + Header + kept + (IF cut THEN Notice ELSE 0)])
  /\ UNCHANGED stored

Code == job.combined + (IF job.inline = 0 THEN 0 ELSE Gap + Header + job.inline)

\* persistOpenclawDashboardAnalysis
Persisted(code) == IF code > StoreCap THEN StoreCap + Notice ELSE code

\* The chat API answers a text.
ModelAnswers(persist) ==
  /\ job.pc = "model" /\ Code > 0
  /\ Serves(NoJob)
  /\ stored' = IF persist THEN Persisted(Code) ELSE stored
  /\ UNCHANGED rows

-----------------------------------------------------------------------------
(* run/read-file                                                           *)

AskRead(f, entry) ==
  /\ job.pc = "idle"
  /\ \/ entry.kind = "dir"
     \/ entry.kind \in {"text", "bytes"} /\ entry.size <= ReadCap
  /\ Serves([NoJob EXCEPT !.paths = <<f>>, !.pc = IF entry.kind = "dir" THEN "list" ELSE "open"])
  /\ rows' = <<>> /\ UNCHANGED stored

\* The first entries in the order of their names.
ListDirectory(entry) ==
  /\ job.pc = "list" /\ entry.kind = "dir"
  /\ rows' = <<[given |-> AtMostOf(entry.size, DirCap), there |-> entry.size,
                truncated |-> entry.size > DirCap]>>
  /\ Serves(NoJob) /\ UNCHANGED stored

\* The whole file as it is by then, as text or base64.
ReadPath(entry) ==
  /\ job.pc = "open" /\ entry.kind \in {"text", "bytes"}
  /\ rows' = <<[given |-> entry.size, there |-> entry.size, truncated |-> FALSE]>>
  /\ Serves(NoJob) /\ UNCHANGED stored

-----------------------------------------------------------------------------
(* run/query-db                                                            *)

AskQuery(limit) ==
  /\ job.pc = "idle"
  /\ Serves([NoJob EXCEPT !.pc = "connect", !.limit = limit])
  /\ rows' = <<>> /\ UNCHANGED stored

\* A limit of zero, or none, is the default.
SampleLimit(limit) ==
  LET asked == IF limit = 0 THEN DefaultSample ELSE limit
  IN AtMostOf(IF asked < 1 THEN 1 ELSE asked, SampleCap)

\* A sample is not told to be one.
Sample(docs) ==
  /\ job.pc = "connect"
  /\ LET got == AtMostOf(docs, SampleLimit(job.limit)) IN
       rows' = <<[given |-> got, there |-> got, truncated |-> FALSE]>>
  /\ Serves(NoJob) /\ UNCHANGED stored

\* Mutant: the stage appended to the pipeline stops at the cap.
Mut_LimitAtCap(docs) ==
  /\ job.pc = "connect"
  /\ LET found == AtMostOf(docs, DocCap) IN
       rows' = <<[given |-> AtMostOf(found, DocCap), there |-> docs,
                  truncated |-> found > DocCap]>>
  /\ Serves(NoJob) /\ UNCHANGED stored

\* One document more than the cap is asked for, to know whether there are more.
Aggregate(docs) ==
  /\ job.pc = "connect"
  /\ LET found == AtMostOf(docs, DocCap + 1) IN
       rows' = <<[given |-> AtMostOf(found, DocCap), there |-> docs,
                  truncated |-> found > DocCap]>>
  /\ Serves(NoJob) /\ UNCHANGED stored

PathLists ==
  {<<>>} \cup {<<f>> : f \in File} \cup {<<p[1], p[2]>> : p \in {q \in File \X File : q[1] # q[2]}}

RoutesNext ==
  \/ Fails
  \/ \E entry \in DiskEntry :
       \/ StatSource(entry) \/ ReadSource(entry) \/ ListDirectory(entry) \/ ReadPath(entry)
       \/ \E f \in File : AskRead(f, entry)
  \/ \E paths \in PathLists, inline \in 0 .. 1 : AskAnalysis(paths, inline)
  \/ \E persist \in BOOLEAN : ModelAnswers(persist)
  \/ \E limit \in -1 .. SampleCap + 1 : AskQuery(limit)
  \/ \E docs \in 0 .. DocCap + 2 : Sample(docs) \/ Aggregate(docs)

RoutesSpec == RoutesInit /\ [][RoutesNext]_routeVars

(***************************************************************************)
(* Properties                                                              *)
(***************************************************************************)

\* However much the files grow between their stat and their read, the sources
\* put together for the model stay within the cap, headers, gaps and notices
\* counted, and an answer tells that something is missing exactly when something
\* is: of a source file, a directory's entries, or an aggregate's documents.
CapsKeptAndTold ==
  /\ job.combined <= CombinedCap
  /\ \A i \in DOMAIN rows : rows[i].truncated <=> rows[i].given < rows[i].there
=============================================================================
