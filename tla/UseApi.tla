------------------------------- MODULE UseApi -------------------------------
(***************************************************************************)
(* The fetching hook of the dashboard, dashboard/src/useApi.js.  A load    *)
(* runs from the call of the fetcher to its answer; answers come in any    *)
(* order.  Only the load of the effect has a signal that somebody aborts.  *)
(***************************************************************************)
EXTENDS Naturals, FiniteSets

CONSTANTS
  Loads,     \* places for loads that are under way
  MaxDeps    \* changes of deps

ASSUME HookAssumption == 1 \in Loads /\ MaxDeps \in Nat

VARIABLES
  deps,      \* the filter of the page, counted
  mounted,
  loads,     \* place -> load
  data,      \* the deps the shown data was fetched for, plus one; 0 is null
  loading,
  failed,    \* error
  late       \* history: kinds of load that overwrote later data

hookvars == <<deps, mounted, loads, data, loading, failed, late>>

NoLoad == [kind |-> "none", of |-> 0, aborted |-> FALSE]

Free == {l \in Loads : loads[l].kind = "none"}

(* load(): fetcherRef.current is the fetcher of the last render. *)
Load(kind) == [kind |-> kind, of |-> deps', aborted |-> FALSE]

HookInit ==
  /\ deps = 0 /\ mounted = TRUE /\ data = 0 /\ loading = TRUE /\ failed = FALSE /\ late = {}
  /\ loads = [l \in Loads |-> IF l = 1 THEN [kind |-> "mount", of |-> 0, aborted |-> FALSE] ELSE NoLoad]

(* Mutant: the cleanup of the effect clears the timer only. *)
Aborted_Not(fs) == fs

(* controller.abort() of the cleanup. *)
Aborted(fs) == [l \in Loads |-> [fs[l] EXCEPT !.aborted = @ \/ fs[l].kind = "mount"]]

(* The deps change: cleanup, then the effect once more, which shows loading. *)
DepsChange ==
  /\ mounted /\ deps < MaxDeps
  /\ deps' = deps + 1
  /\ \E l \in Free : loads' = [Aborted(loads) EXCEPT ![l] = Load("mount")]
  /\ loading' = TRUE
  /\ UNCHANGED <<mounted, data, failed, late>>

(* The timer, or refresh(): a controller that is dropped. *)
QuietLoad ==
  /\ mounted
  /\ UNCHANGED deps
  /\ \E l \in Free : loads' = [loads EXCEPT ![l] = Load("quiet")]
  /\ UNCHANGED <<mounted, data, loading, failed, late>>

Unmount ==
  /\ mounted /\ mounted' = FALSE
  /\ loads' = Aborted(loads)
  /\ UNCHANGED <<deps, data, loading, failed, late>>

(* finally *)
Settled(l) == IF loads[l].aborted THEN loading ELSE FALSE

(* The answer: shown if the signal is not aborted.  After the unmount React  *)
(* ignores it.                                                               *)
Resolves(l) ==
  /\ loads[l].kind # "none"
  /\ loads' = [loads EXCEPT ![l] = NoLoad]
  /\ IF loads[l].aborted \/ ~ mounted THEN UNCHANGED <<data, failed, late>>
     ELSE /\ data' = loads[l].of + 1 /\ failed' = FALSE
          /\ late' = IF loads[l].of < deps THEN late \cup {loads[l].kind} ELSE late
  /\ loading' = Settled(l)
  /\ UNCHANGED <<deps, mounted>>

(* An error that is not the abort's is shown, even of an aborted load.       *)
Rejects(l) ==
  /\ loads[l].kind # "none"
  /\ loads' = [loads EXCEPT ![l] = NoLoad]
  /\ \/ loads[l].aborted /\ UNCHANGED failed
     \/ failed' = TRUE
  /\ loading' = Settled(l)
  /\ UNCHANGED <<deps, mounted, data, late>>

Answers == \E l \in Loads : Resolves(l) \/ Rejects(l)

HookNext == DepsChange \/ QuietLoad \/ Unmount \/ Answers

-----------------------------------------------------------------------------
(* "a fast filter change never lets a slow earlier response overwrite a fast *)
(* later one": true of the load of the effect.  Polls and refreshes hold     *)
(* signals that nobody aborts, and are the only answers to come late.        *)
OnlyQuietLoadsAreLate == late \subseteq {"quiet"}

(* The page that shows loading has a request under way that will end it.     *)
LoadingHasALoad ==
  mounted /\ loading => \E l \in Loads : loads[l] = [kind |-> "mount", of |-> deps, aborted |-> FALSE]

(* What a page shows belongs to its filter, and it never waits for nothing,  *)
(* but for the quiet loads that nobody aborts.                               *)
HookIsHonest == OnlyQuietLoadsAreLate /\ LoadingHasALoad

-----------------------------------------------------------------------------
(* The inductive invariant behind it: the effect has one load that is not    *)
(* aborted, for the deps of the moment.                                      *)
HookTyped ==
  /\ deps \in Nat /\ mounted \in BOOLEAN /\ loading \in BOOLEAN
  /\ loads \in [Loads -> [kind : {"none", "mount", "quiet"}, of : Nat, aborted : BOOLEAN]]

MountsAreCurrent ==
  mounted => \A l \in Loads : loads[l].kind = "mount" /\ ~ loads[l].aborted => loads[l].of = deps

HookInv == HookTyped /\ MountsAreCurrent /\ HookIsHonest

=============================================================================
