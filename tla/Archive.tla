-------------------------------- MODULE Archive --------------------------------
(***************************************************************************)
(* The download archive (core/archive.py): a text file that is appended to *)
(* and, for a removal, rewritten in place behind a staged copy, which the  *)
(* next construction publishes after a crash.                              *)
(*                                                                         *)
(* Threads of one process and other processes work on the same two names.  *)
(* A name leads to an inode, and an open file goes on writing to the inode *)
(* it has opened.  A file is the sequence of its lines, all of one length, *)
(* so that a write at the start covers whole lines.  One small write       *)
(* reaches the file at once.                                               *)
(*                                                                         *)
(* Left out: blank lines and comments, a last line without its end, and an *)
(* os.replace that fails (a warning).                                      *)
(***************************************************************************)
EXTENDS Naturals, Sequences, SequencesExt

CONSTANTS
    Ids,          \* video ids
    Processes,    \* the daemon and commands in the foreground
    Workers,      \* the threads that call add and remove
    Process,      \* the process of each
    Inodes,       \* files there can be, positive numbers
    MaxAdds,      \* bound: lines ever appended
    MaxStarts,    \* bound: starts of processes
    Manners,      \* which of the three manners below are explored
    TornStaging   \* TRUE: a process may die while the staged copy is empty

\* "turns":   one call at a time, no construction during a removal, and no
\*            call between a death in a removal and the next construction;
\* "appends": the same, but lines are appended during removals too;
\* "any":     no restriction, which is what the callers do.
ASSUME ArchiveAssumption ==
    /\ Ids # {}
    /\ IsFiniteSet(Workers)
    /\ Inodes \subseteq Nat \ {0}
    /\ IsFiniteSet(Inodes) => Cardinality(Inodes) > Cardinality(Workers) + 2
    /\ Process \in [Workers -> Processes]
    /\ MaxAdds \in Nat /\ MaxStarts \in Nat
    /\ Manners \subseteq {"turns", "appends", "any"}
    /\ TornStaging \in BOOLEAN

VARIABLES
    manner,   \* chosen at the start
    up,       \* processes that have constructed their archive
    path,     \* the inode of each name, 0 if there is no such file
    disk,     \* the lines in each inode
    pc,       \* where each worker is
    goal,     \* the id it adds or removes
    kept,     \* the lines it keeps
    fd,       \* the inode it has open, 0 for none
    settled,  \* history: ids added while nothing was being removed
    gone,     \* history: ids removed, and not added since
    since,    \* history: ids added since the last removal began
    adds, starts

workerVars == <<pc, goal, kept, fd>>
history == <<settled, gone, since>>
vars == <<manner, up, path, disk, workerVars, history, adds, starts>>

RemovePcs == {"stage", "staging", "open", "rewriting", "unlink"}

Lines(i) == IF i = 0 THEN <<>> ELSE disk[i]
Busy(w) == pc[w] # "idle"
Removing == \E w \in Workers : pc[w] \in RemovePcs

Leftover == path.staged # 0 /\ ~Removing
MayAdd ==
    /\ manner = "turns" => \A w \in Workers : ~Busy(w)
    /\ manner # "any" => ~Leftover
MayRemove == MayAdd /\ (manner = "appends" => ~Removing)
MayConstruct == manner # "any" => ~Removing

Init ==
    /\ manner \in Manners
    /\ up = {}
    /\ path = [archive |-> 0, staged |-> 0]
    /\ disk = [i \in Inodes |-> <<>>]
    /\ pc = [w \in Workers |-> "idle"]
    /\ goal \in [Workers -> {CHOOSE v \in Ids : TRUE}]
    /\ kept = [w \in Workers |-> <<>>]
    /\ fd = [w \in Workers |-> 0]
    /\ settled = {} /\ gone = {} /\ since = {}
    /\ adds = 0 /\ starts = 0

Goto(w, l) == pc' = [pc EXCEPT ![w] = l]

\* A file that no name leads to and nobody has open.
Free == CHOOSE i \in Inodes : i \notin {path.archive, path.staged} \cup {fd[w] : w \in Workers}

\* open(name, "w"): the file is created, or cut to nothing.
OpenW(w, name) ==
    LET i == IF path[name] = 0 THEN Free ELSE path[name]
    IN /\ path' = [path EXCEPT ![name] = i]
       /\ disk' = [disk EXCEPT ![i] = <<>>]
       /\ fd' = [fd EXCEPT ![w] = i]

\* A write at the start of a file: what is beyond it stays.
Overwrite(old, new) == new \o SubSeq(old, Len(new) + 1, Len(old))

Finish(w) ==
    /\ Goto(w, "idle")
    /\ fd' = [fd EXCEPT ![w] = 0]
    /\ kept' = [kept EXCEPT ![w] = <<>>]

---------------------------------------------------------------------------
(* add(), and yt-dlp's own record of a download.                           *)

AddOpen(w, v) ==
    /\ Process[w] \in up /\ ~Busy(w) /\ MayAdd
    /\ adds < MaxAdds /\ adds' = adds + 1
    /\ LET i == IF path.archive = 0 THEN Free ELSE path.archive
       IN /\ path' = [path EXCEPT !.archive = i]
          /\ disk' = IF path.archive = 0 THEN [disk EXCEPT ![i] = <<>>] ELSE disk
          /\ fd' = [fd EXCEPT ![w] = i]
    /\ goal' = [goal EXCEPT ![w] = v]
    /\ Goto(w, "append")
    /\ UNCHANGED <<manner, up, kept, history, starts>>

AddWrite(w) ==
    /\ pc[w] = "append"
    /\ disk' = [disk EXCEPT ![fd[w]] = Append(@, goal[w])]
    /\ settled' = IF ~Removing /\ path.staged = 0 /\ fd[w] = path.archive
                  THEN settled \cup {goal[w]} ELSE settled
    /\ gone' = gone \ {goal[w]}
    /\ since' = since \cup {goal[w]}
    /\ Finish(w)
    /\ UNCHANGED <<manner, up, path, goal, adds, starts>>

---------------------------------------------------------------------------
(* remove().                                                               *)

\* The loop over the lines: what it keeps.
Without(lines, v) ==
    LET keeps[i \in 0..Len(lines)] ==
            IF i = 0 THEN <<>>
            ELSE IF lines[i] = v THEN keeps[i - 1] ELSE Append(keeps[i - 1], lines[i])
    IN  keeps[Len(lines)]

\* Nothing happens unless the archive has the entry.
RemoveRead(w, v) ==
    /\ Process[w] \in up /\ ~Busy(w) /\ MayRemove
    /\ Contains(Lines(path.archive), v)
    /\ kept' = [kept EXCEPT ![w] = Without(Lines(path.archive), v)]
    /\ goal' = [goal EXCEPT ![w] = v]
    /\ Goto(w, "stage")
    /\ settled' = settled \ {v}
    /\ since' = {}
    /\ UNCHANGED <<manner, up, path, disk, fd, gone, adds, starts>>

\* Mutant: the rewrite is not staged.
StageNothing(w) ==
    /\ pc[w] = "stage"
    /\ Goto(w, "open")
    /\ UNCHANGED <<manner, up, path, disk, goal, kept, fd, history, adds, starts>>

StageOpen(w) ==
    /\ pc[w] = "stage"
    /\ OpenW(w, "staged")
    /\ Goto(w, "staging")
    /\ UNCHANGED <<manner, up, goal, kept, history, adds, starts>>

StageWrite(w) ==
    /\ pc[w] = "staging"
    /\ disk' = [disk EXCEPT ![fd[w]] = Overwrite(@, kept[w])]
    /\ fd' = [fd EXCEPT ![w] = 0]
    /\ Goto(w, "open")
    /\ UNCHANGED <<manner, up, path, goal, kept, history, adds, starts>>

\* Mutant: the staged copy is dropped before the archive is written.
RewriteOpenUnlinks(w) ==
    /\ pc[w] = "open"
    /\ path' = [path EXCEPT !.staged = 0]
    /\ disk' = [disk EXCEPT ![path.archive] = <<>>]
    /\ fd' = [fd EXCEPT ![w] = path.archive]
    /\ Goto(w, "rewriting")
    /\ UNCHANGED <<manner, up, goal, kept, history, adds, starts>>

RewriteOpen(w) ==
    /\ pc[w] = "open"
    /\ OpenW(w, "archive")
    /\ Goto(w, "rewriting")
    /\ UNCHANGED <<manner, up, goal, kept, history, adds, starts>>

RewriteWrite(w) ==
    /\ pc[w] = "rewriting"
    /\ disk' = [disk EXCEPT ![fd[w]] = Overwrite(@, kept[w])]
    /\ fd' = [fd EXCEPT ![w] = 0]
    /\ Goto(w, "unlink")
    /\ UNCHANGED <<manner, up, path, goal, kept, history, adds, starts>>

Unlink(w) ==
    /\ pc[w] = "unlink"
    /\ path' = [path EXCEPT !.staged = 0]
    /\ gone' = (gone \cup {goal[w]}) \ since
    /\ Finish(w)
    /\ UNCHANGED <<manner, up, disk, goal, settled, since, adds, starts>>

---------------------------------------------------------------------------
(* Processes.                                                              *)

\* A leftover staged copy is published by os.replace.
Construct(p) ==
    /\ p \notin up /\ up' = up \cup {p}
    /\ starts < MaxStarts /\ starts' = starts + 1
    /\ MayConstruct
    /\ path' = IF path.staged # 0 THEN [archive |-> path.staged, staged |-> 0] ELSE path
    /\ UNCHANGED <<manner, disk, workerVars, history, adds>>

\* The end of a process, at any point of its threads' calls.
Die(p) ==
    /\ p \in up /\ up' = up \ {p}
    /\ ~TornStaging => \A w \in Workers : Process[w] = p => pc[w] # "staging"
    /\ pc' = [w \in Workers |-> IF Process[w] = p THEN "idle" ELSE pc[w]]
    /\ fd' = [w \in Workers |-> IF Process[w] = p THEN 0 ELSE fd[w]]
    /\ kept' = [w \in Workers |-> IF Process[w] = p THEN <<>> ELSE kept[w]]
    /\ UNCHANGED <<manner, path, disk, goal, history, adds, starts>>

Next ==
    \/ \E w \in Workers :
          \/ \E v \in Ids : AddOpen(w, v) \/ RemoveRead(w, v)
          \/ AddWrite(w)
          \/ StageOpen(w) \/ StageWrite(w) \/ RewriteOpen(w) \/ RewriteWrite(w) \/ Unlink(w)
    \/ \E p \in Processes : Construct(p) \/ Die(p)

Spec == Init /\ [][Next]_vars

---------------------------------------------------------------------------
(* Properties.                                                             *)

\* Every variable has its type, and the two names are two files.
TypeOK ==
    /\ manner \in Manners
    /\ up \subseteq Processes
    /\ path \in [{"archive", "staged"} -> {0} \cup Inodes]
    /\ path.archive = path.staged => path.archive = 0
    /\ DOMAIN disk = Inodes
    /\ \A i \in Inodes : ToSet(disk[i]) \subseteq Ids /\ Len(disk[i]) <= MaxAdds
    /\ pc \in [Workers -> RemovePcs \cup {"idle", "append"}]
    /\ goal \in [Workers -> Ids]
    /\ \A w \in Workers : ToSet(kept[w]) \subseteq Ids
    /\ fd \in [Workers -> {0} \cup Inodes]
    /\ settled \subseteq Ids /\ gone \subseteq Ids /\ since \subseteq Ids
    /\ adds \in 0..MaxAdds /\ starts \in 0..MaxStarts

\* What the archive holds: a complete staged copy counts before the file.
Staged == path.staged # 0 /\ \A w \in Workers : pc[w] # "staging"
Entries == ToSet(Lines(IF Staged THEN path.staged ELSE path.archive))

(***************************************************************************)
(* As long as callers take turns, the archive is a set that each call      *)
(* changes at once: no death of the process between two steps of a removal *)
(* leaves anything but the entries before or after it (T-DB-16).           *)
(***************************************************************************)
Set == INSTANCE ArchiveSet WITH Ids <- Ids, entries <- Entries
ImplementsSet == Set!Init /\ [][manner = "turns" => Set!Next \/ UNCHANGED Entries]_vars

(***************************************************************************)
(* An entry that was added while nothing was being removed is still there  *)
(* when everything is at rest, however removals of others, appends and     *)
(* deaths have interleaved.                                                *)
(***************************************************************************)
AtRest == \A w \in Workers : ~Busy(w)
SettledSurvive == manner # "any" /\ AtRest => settled \subseteq Entries

(***************************************************************************)
(* remove() returning True means that the next download is not answered    *)
(* "already downloaded" (T-ENGINE-18): the entry does not come back by a   *)
(* duplicate line, by what a write at the start leaves behind it, or by a  *)
(* recovery.                                                               *)
(***************************************************************************)
RemovedStaysGone == manner # "any" /\ AtRest => gone \cap Entries = {}

(***************************************************************************)
(* The comment of remove(): a rewrite in place does not discard "appends   *)
(* that land between the read and the swap".                               *)
(***************************************************************************)
AppendsSurvive == AtRest => since \subseteq Entries

(***************************************************************************)
(* The comment of the recovery: a leftover temp "holds the kept content".  *)
(***************************************************************************)
LeftoverHoldsKept == manner = "turns" /\ Leftover => settled \subseteq ToSet(disk[path.staged])
=============================================================================
