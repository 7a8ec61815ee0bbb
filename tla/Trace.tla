------------------------------- MODULE Trace -------------------------------
(***************************************************************************)
(* The pure part of memory/manager/trace.go and of the replay in           *)
(* snapshot_state.go: how the offsets recorded during the first run of a   *)
(* snapshot become contiguous regions, how the regions become the working  *)
(* set file, and where the pages of that file are installed.               *)
(*                                                                         *)
(* Offsets are counted in pages, and the content of a page of the guest    *)
(* memory file is represented by its offset in that file.                  *)
(***************************************************************************)
EXTENDS Integers, Sequences, FiniteSets, SequencesExt

\* A fault served while recording.
AppendRecord(trace, offset) == Append(trace, offset)

\* containedOffsets has exactly the offsets ever appended.
ContainsRecord(trace, offset) == Contains(trace, offset)

\* sort.Slice by offset.
SortedRecords(trace) == SortSeq(trace, <)

\* Mutant: a region is closed as soon as it has a second page.
RegionStepShort(acc, offset) ==
  [last |-> offset, start |-> offset, regions |-> (offset :> 1) @@ acc.regions]

\* The loop of ProcessRecord: one map entry per run of consecutive offsets.  An
\* entry that regions[regionStart]++ does not find counts from zero.
RegionStep(acc, offset) ==
  IF offset # acc.last + 1
    THEN [last |-> offset, start |-> offset, regions |-> (offset :> 1) @@ acc.regions]
    ELSE LET n == IF acc.start \in DOMAIN acc.regions THEN acc.regions[acc.start] ELSE 0
         IN  [acc EXCEPT !.last = offset,
                         !.regions = (acc.start :> n + 1) @@ acc.regions]

NoRegions == [offset \in {} |-> 0]

BuildRegions(trace) ==
  FoldLeft(RegionStep, [last |-> 0, start |-> 0, regions |-> NoRegions],
           SortedRecords(trace)).regions

\* Both the writer and the installer visit the regions in ascending order.
RegionKeys(regions) == SetToSortSeq(DOMAIN regions, <)

\* Mutant: the regions are written in the order in which the map yields them.
KeysDescending(regions) == SetToSortSeq(DOMAIN regions, >)

WriteOrder(regions) == RegionKeys(regions)

\* writeWorkingSetPagesToFile: the pages of every region, one after the other.
WorkingSetFile(regions) ==
  LET pages(offset) == [i \in 1..regions[offset] |-> offset + i - 1]
  IN  FoldLeft(LAMBDA file, offset : file \o pages(offset), <<>>, WriteOrder(regions))

\* installWorkingSetPages: the offset at which each page of the buffer ends up.
InstalledPages(regions, workingSet) ==
  LET install(acc, offset) ==
        [src |-> acc.src + regions[offset],
         mem |-> [p \in offset..(offset + regions[offset] - 1) |->
                    workingSet[acc.src + p - offset + 1]] @@ acc.mem]
  IN  FoldLeft(install, [src |-> 0, mem |-> NoRegions], RegionKeys(regions)).mem

-----------------------------------------------------------------------------
(* What the regions of a set S of recorded offsets should be. *)

RunStarts(S) == {s \in S : s - 1 \notin S}

\* The run that starts at s: everything up to the first offset that is missing.
RunOf(S, s) == {x \in S : x >= s /\ \A y \in s..x : y \in S}

AreRunsOf(regions, S) ==
  /\ DOMAIN regions = RunStarts(S)
  /\ \A s \in RunStarts(S) : regions[s] = Cardinality(RunOf(S, s))

NoRepeats(trace) == \A i, j \in DOMAIN trace : trace[i] = trace[j] => i = j

\* The traces that a first run leaves: no page twice, and the first page of guest memory
\* among them.  Without that page the loop of ProcessRecord would take page 1 for the
\* continuation of a run that starts at page 0.
Recordable(trace) == NoRepeats(trace) /\ (trace # <<>> => 0 \in ToSet(trace))

\* What trace, regions, file and buffer are for: the file has every recorded page once,
\* and replaying it puts every recorded page where it belongs.
ReplayExact(trace) ==
  LET regions == BuildRegions(trace)
      file == WorkingSetFile(regions)
  IN  /\ SortedRecords(trace) \in Seq(ToSet(trace))
      /\ Len(SortedRecords(trace)) = Len(trace) /\ ToSet(SortedRecords(trace)) = ToSet(trace)
      /\ AreRunsOf(regions, ToSet(trace))
      /\ file \in Seq(ToSet(trace)) /\ Len(file) = Len(trace)
      /\ InstalledPages(regions, file) = [p \in ToSet(trace) |-> p]
=============================================================================
