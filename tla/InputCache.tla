----------------------------- MODULE InputCache -----------------------------
(***************************************************************************)
(* The raw data of a dataset on the local disk: normalize materialises its *)
(* S3 input with download_dir, with --resume into a cache directory that   *)
(* survives the process and that every process given the same uri shares.  *)
(*                                                                         *)
(* An object is the generation somebody put under its key; two generations *)
(* may have one size.  The threads of download_dir and the processes that  *)
(* share the directory interleave between listing, comparing, requesting   *)
(* an object, landing it in a .part file, renaming that and cleaning up.   *)
(***************************************************************************)
EXTENDS Integers, Sequences

CONSTANTS
  Loaders,      \* processes that materialise the dataset
  Objects,      \* keys below the prefix
  LeftOut,      \* keys that exclude_prefixes leaves out (videos/)
  SizeOf,       \* the size of each generation: 1 is there first, a change makes the next
  MaxLosses     \* bound: loaders that die, requests that fail

Generations == DOMAIN SizeOf
ASSUME CacheAssumption ==
  /\ LeftOut \subseteq Objects /\ MaxLosses \in Nat
  /\ SizeOf \in Seq(Nat \ {0}) /\ Len(SizeOf) > 0

VARIABLES
  source,       \* the generation of each object, 0 when it is absent
  cached,       \* the generation of each file of the cache directory
  part,         \* the generation in the .part file beside it
  lPc,          \* idle, list, load, clean, done, failed
  listed,       \* the generation a loader saw of each object when it listed them
  inFlight,     \* the generation that its request for an object is answered with
  lTask,        \* what it still has to do for each file
  crowded,      \* history: loaders that had another one at work beside them
  newest,       \* the last generation there is
  losses

cacheVars == <<source, cached, part, lPc, listed, inFlight, lTask, crowded, newest, losses>>

AtWork(p) == lPc[p] \in {"list", "load"}

\* _resolve_input_dir with --resume; without it the directory is new and nobody else's.
LoaderStarts(p) ==
  /\ lPc[p] \in {"idle", "failed"}
  /\ lPc' = [lPc EXCEPT ![p] = "list"]
  /\ LET others == {q \in Loaders \ {p} : AtWork(q)}
     IN  crowded' = IF others = {} THEN crowded \ {p} ELSE crowded \cup others \cup {p}
  /\ UNCHANGED <<source, cached, part, listed, inFlight, lTask, newest, losses>>

Wanted(f) == source[f] # 0 /\ f \notin LeftOut

\* list_objects_v2, page after page, is taken as one answer.
LoaderLists(p) ==
  /\ lPc[p] = "list"
  /\ listed' = [listed EXCEPT ![p] = [f \in Objects |-> IF Wanted(f) THEN source[f] ELSE 0]]
  /\ lTask' = [lTask EXCEPT ![p] = [f \in Objects |-> IF Wanted(f) THEN "compare" ELSE "done"]]
  /\ lPc' = [lPc EXCEPT ![p] = "load"]
  /\ UNCHANGED <<source, cached, part, inFlight, crowded, newest, losses>>

Present(p, f) == cached[f] # 0                                        \* mutant
\* _matches_local: a file of the listed size is taken for the object.
MatchesLocal(p, f) == cached[f] # 0 /\ SizeOf[cached[f]] = SizeOf[listed[p][f]]

Does(p, f, step) == lTask' = [lTask EXCEPT ![p][f] = step]

Compare(p, f) ==
  /\ lPc[p] = "load" /\ lTask[p][f] = "compare"
  /\ Does(p, f, IF MatchesLocal(p, f) THEN "done" ELSE "get")
  /\ UNCHANGED <<source, cached, part, lPc, listed, inFlight, crowded, newest, losses>>

\* client.download_file asks for the object as it is now, and gets it whole; a key that is
\* gone raises.
Request(p, f) ==
  /\ lPc[p] = "load" /\ lTask[p][f] = "get"
  /\ IF source[f] # 0
     THEN inFlight' = [inFlight EXCEPT ![p][f] = source[f]] /\ Does(p, f, "land")
     ELSE UNCHANGED inFlight /\ Does(p, f, "raised")
  /\ UNCHANGED <<source, cached, part, lPc, listed, crowded, newest, losses>>

\* Its bytes are there some time later, under a name that other loaders use, too.
Land(p, f) ==
  /\ lPc[p] = "load" /\ lTask[p][f] = "land"
  /\ part' = [part EXCEPT ![f] = inFlight[p][f]]
  /\ Does(p, f, "rename")
  /\ UNCHANGED <<source, cached, lPc, listed, inFlight, crowded, newest, losses>>

\* tmp.replace(target): the .part file may be gone, or another process's.
Rename(p, f) ==
  /\ lPc[p] = "load" /\ lTask[p][f] = "rename"
  /\ IF part[f] # 0
     THEN /\ cached' = [cached EXCEPT ![f] = part[f]]
          /\ part' = [part EXCEPT ![f] = 0]
          /\ Does(p, f, "clean")
     ELSE UNCHANGED <<cached, part>> /\ Does(p, f, "raised")
  /\ UNCHANGED <<source, lPc, listed, inFlight, crowded, newest, losses>>

\* finally: whatever has that name now is removed.
CleanPart(p, f) ==
  /\ lPc[p] = "load" /\ lTask[p][f] \in {"clean", "raised"}
  /\ part' = [part EXCEPT ![f] = 0]
  /\ Does(p, f, IF lTask[p][f] = "clean" THEN "done" ELSE "error")
  /\ UNCHANGED <<source, cached, lPc, listed, inFlight, crowded, newest, losses>>

\* The pool is left when every file has been tried; one error is raised.
Settled(p) == \A f \in Objects : lTask[p][f] \in {"done", "error"}

LoaderEnds(p) ==
  /\ lPc[p] = "load" /\ Settled(p)
  /\ lPc' = [lPc EXCEPT ![p] = IF \E f \in Objects : lTask[p][f] = "error" THEN "failed" ELSE "done"]
  /\ UNCHANGED <<source, cached, part, listed, inFlight, lTask, crowded, newest, losses>>

\* A request fails after its retries, or the process dies.
GetFails(p, f) ==
  /\ lPc[p] = "load" /\ lTask[p][f] \in {"get", "land"} /\ losses < MaxLosses
  /\ losses' = losses + 1
  /\ Does(p, f, "raised")
  /\ UNCHANGED <<source, cached, part, lPc, listed, inFlight, crowded, newest>>

LoaderDies(p) ==
  /\ lPc[p] \in {"list", "load"} /\ losses < MaxLosses
  /\ losses' = losses + 1
  /\ lPc' = [lPc EXCEPT ![p] = "failed"]
  /\ UNCHANGED <<source, cached, part, listed, inFlight, lTask, crowded, newest>>

\* An object is uploaded again, or removed.
SourceChanges(f) ==
  /\ newest + 1 \in Generations
  /\ newest' = newest + 1
  /\ \E g \in {0, newest + 1} : source' = [source EXCEPT ![f] = g]
  /\ UNCHANGED <<cached, part, lPc, listed, inFlight, lTask, crowded, losses>>

CacheInit ==
  /\ source = [f \in Objects |-> 1]
  /\ cached = [f \in Objects |-> 0] /\ part = [f \in Objects |-> 0]
  /\ lPc = [p \in Loaders |-> "idle"]
  /\ listed = [p \in Loaders |-> [f \in Objects |-> 0]]
  /\ inFlight = [p \in Loaders |-> [f \in Objects |-> 0]]
  /\ lTask = [p \in Loaders |-> [f \in Objects |-> "done"]] /\ crowded = {}
  /\ newest = 1 /\ losses = 0

CacheNext ==
  \/ \E p \in Loaders :
       \/ LoaderStarts(p) \/ LoaderLists(p) \/ LoaderEnds(p) \/ LoaderDies(p)
       \/ \E f \in Objects :
            \/ Compare(p, f) \/ Request(p, f) \/ Land(p, f) \/ Rename(p, f) \/ CleanPart(p, f)
            \/ GetFails(p, f)
  \/ \E f \in Objects : SourceChanges(f)

CacheSpec == CacheInit /\ [][CacheNext]_cacheVars

-----------------------------------------------------------------------------
(* Properties.                                                             *)

\* store.py:304: download_dir skips the local files that match in size and mtime: after a
\* download every object it listed is in the directory, and where no other loader was at
\* work beside it, none is older than it was listed; later loaders keep it so, together or
\* not.  Only the size is compared: it holds while no two generations of an object have
\* one size.  Two loaders at a time share the .part file, and a request that was made
\* early may land late.
CacheIsCurrent ==
  \A p \in Loaders : lPc[p] = "done" =>
    \A f \in Objects : listed[p][f] # 0 =>
      cached[f] # 0 /\ (p \notin crowded => cached[f] >= listed[p][f])
=============================================================================
