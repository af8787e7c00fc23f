-------------------------------- MODULE Files --------------------------------
(***************************************************************************)
(* The file tree of src/filesys.c: one program walks it with zftw or       *)
(* zftw_nr while another creates and removes entries.  A path is an entry, *)
(* with its directory.                                                     *)
(***************************************************************************)
EXTENDS Integers, Sequences, FiniteSets, SequencesExt

CONSTANTS
  Entries, Root,
  Dir(_),     \* the directory of an entry other than Root
  MaxChanges  \* bound on the changes during a walk

VARIABLES
  kind,    \* [Entries -> "none", "file", "dir", "closed" (a directory that cannot be read)]
  steady,  \* the entries that are as they were when the walk began, their directories too
  changes,
  walker,  \* "idle", "zftw", "zftw_nr"
  frames,  \* the directories that the walk has open: entry and names still to read
  next,    \* the path to walk next: a sequence of one, or none
  calls,   \* the calls of func: entry, flag, result
  finished \* how the walk ended: "no", "yes", "stopped" by func

treeVars == <<kind, steady, changes>>
walkVars == <<walker, frames, next, calls, finished>>
fileVars == <<treeVars, walkVars>>

Kinds == {"none", "file", "dir", "closed"}
IsDir(e) == kind[e] \in {"dir", "closed"}
Inside(d) == {e \in Entries \ {Root} : Dir(e) = d}
Listed(d) == {e \in Inside(d) : kind[e] # "none"}

\* The entry and all below it: the least set with the entry and what is inside its members.
Below(d) ==
  LET Closed(set) == d \in set /\ \A e \in set : Inside(e) \subseteq set
  IN  {e \in Entries : \A set \in SUBSET Entries : Closed(set) => e \in set}

ASSUME FilesAssumption ==
  /\ Root \in Entries /\ \A e \in Entries \ {Root} : Dir(e) \in Entries
  /\ Below(Root) = Entries

FilesInit ==
  /\ kind \in [Entries -> Kinds] /\ kind[Root] \in {"dir", "closed"}
  /\ \A e \in Entries \ {Root} : kind[e] # "none" => kind[Dir(e)] = "dir"
  /\ steady = {} /\ changes = 0
  /\ walker = "idle" /\ frames = <<>> /\ next = <<>> /\ calls = <<>> /\ finished = "no"

-----------------------------------------------------------------------------
(* The tree.                                                               *)

Change(e, k) ==
  /\ changes < MaxChanges /\ changes' = changes + 1
  /\ kind' = [kind EXCEPT ![e] = k]
  /\ steady' = steady \ Below(e)
  /\ UNCHANGED walkVars

Creatable(e) == e # Root /\ kind[e] = "none" /\ kind[Dir(e)] = "dir"

Zmkdir(e) == Creatable(e) /\ Change(e, "dir")

\* zfopen with O_CREAT.
Zfopen(e) == Creatable(e) /\ Change(e, "file")

Zrmdir(e) == e # Root /\ IsDir(e) /\ Listed(e) = {} /\ Change(e, "none")

Zrmfile(e) == kind[e] = "file" /\ Change(e, "none")

-----------------------------------------------------------------------------
(* The walk.                                                               *)

Start(w) ==
  /\ walker = "idle" /\ walker' = w /\ next' = <<Root>>
  /\ steady' = {e \in Entries : kind[e] # "none"}
  /\ UNCHANGED <<kind, changes, frames, calls, finished>>

\* zfstat.
FtwFlag(e) == CASE kind[e] = "none" -> "FTW_NS"
             [] kind[e] = "file" -> "FTW_F"
             [] OTHER -> "FTW_D"

Call(e, flag, ret) == calls' = Append(calls, [entry |-> e, flag |-> flag, ret |-> ret])

\* A result other than 0 ends the walk, except for that of a name that zftw_nr reads.
Ends(ret) == ret # 0 /\ (walker = "zftw" \/ frames = <<>>)

\* The outcome of a call: the walk stops, or goes on with a path or none.
Outcome(ret, path) ==
  \/ Ends(ret) /\ frames' = <<>> /\ next' = <<>> /\ finished' = "stopped"
  \/ ~Ends(ret) /\ next' = path /\ UNCHANGED <<frames, finished>>

\* Mutated form: zftw opens no directory but the first either.
DescendsOnce == frames = <<>>

\* zftw_nr does not open the directories in its first one.
Descends == walker = "zftw" \/ frames = <<>>

\* func is called for the path.  A directory that is to be read is the next path again.
Visit(e) ==
  /\ next = <<e>>
  /\ \E ret \in {0, 1} :
       /\ Call(e, FtwFlag(e), ret)
       /\ Outcome(ret, IF IsDir(e) /\ Descends THEN <<e, e>> ELSE <<>>)
  /\ UNCHANGED <<treeVars, walker>>

\* opendir, which lists what is in the directory now ...
OpenDir(e) ==
  /\ next = <<e, e>> /\ kind[e] = "dir"
  /\ next' = <<>> /\ frames' = Append(frames, [dir |-> e, names |-> Listed(e)])
  /\ UNCHANGED <<treeVars, walker, calls, finished>>

\* ... or fails: func is called with FTW_DNR.
OpenDirFails(e) ==
  /\ next = <<e, e>> /\ kind[e] # "dir"
  /\ \E ret \in {0, 1} : Call(e, "FTW_DNR", ret) /\ Outcome(ret, <<>>)
  /\ UNCHANGED <<treeVars, walker>>

Top == Last(frames)

ReadDir ==
  /\ next = <<>> /\ frames # <<>>
  /\ \E e \in Top.names :
       /\ next' = <<e>>
       /\ frames' = [frames EXCEPT ![Len(frames)].names = @ \ {e}]
  /\ UNCHANGED <<treeVars, walker, calls, finished>>

\* The last name: closedir, and back to the directory before.
CloseDir ==
  /\ next = <<>> /\ frames # <<>> /\ Top.names = {}
  /\ frames' = Front(frames)
  /\ UNCHANGED <<treeVars, walker, next, calls, finished>>

Return ==
  /\ walker # "idle" /\ finished = "no" /\ next = <<>> /\ frames = <<>>
  /\ finished' = "yes"
  /\ UNCHANGED <<treeVars, walker, frames, next, calls>>

FilesNext ==
  \/ \E e \in Entries : Zmkdir(e) \/ Zfopen(e) \/ Zrmdir(e) \/ Zrmfile(e) \/ Visit(e)
                     \/ OpenDir(e) \/ OpenDirFails(e)
  \/ \E w \in {"zftw", "zftw_nr"} : Start(w)
  \/ ReadDir \/ CloseDir \/ Return

FilesSpec == FilesInit /\ [][FilesNext]_fileVars

-----------------------------------------------------------------------------
CallsFor(e) == {i \in DOMAIN calls : calls[i].entry = e /\ calls[i].flag # "FTW_DNR"}
ToVisit == IF walker = "zftw" THEN Entries ELSE {Root} \cup Inside(Root)

\* While the tree changes, a walk calls func at most once for a path (and once more for a
\* directory that it cannot read), for a directory before what is in it, and zftw never after
\* a result other than 0; a walk that ends by itself has called it for every entry that stayed
\* as it was, zftw_nr for those of the first directory (filesys.c:421-460, 512-557).
WalkVisits ==
  /\ \A e \in Entries : Cardinality(CallsFor(e)) <= 1
  /\ \A i \in DOMAIN calls : calls[i].entry # Root =>
       \E j \in 1..i - 1 : calls[j].entry = Dir(calls[i].entry) /\ calls[j].flag = "FTW_D"
  /\ walker = "zftw" => \A i \in 1..Len(calls) - 1 : calls[i].ret = 0
  /\ finished = "yes" => \A e \in steady \cap ToVisit :
       \E i \in CallsFor(e) : calls[i].flag = FtwFlag(e)
=============================================================================
