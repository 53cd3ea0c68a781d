------------------------------ MODULE Fetching ------------------------------
(***************************************************************************)
(* The effect with which every page of the front end loads its data:       *)
(*                                                                         *)
(*   useEffect(() => { let cancelled = false; fetch().then(set data)       *)
(*     .catch(set error).finally(loading off); return () => cancelled =    *)
(*     true }, [key])                                                      *)
(*                                                                         *)
(* A handler that changes the key switches loading on; the effect then     *)
(* cancels the call of the old key and makes one for the new.  A cancelled *)
(* call still gets its answer, in any order, but no longer hears it.       *)
(***************************************************************************)
EXTENDS Naturals, FiniteSets

CONSTANTS MaxCalls,    \* calls of one component in flight (bound)
          None

ASSUME FetchAssumption == MaxCalls \in Nat \ {0}

\* A component's fetch: what it was given last, loading, error, and its calls in flight.
Fetches(Data, Reqs) == [data : Data \cup {None}, loading : BOOLEAN, error : BOOLEAN,
                        calls : SUBSET [req : Reqs, live : BOOLEAN]]
Call(req)    == [req |-> req, live |-> TRUE]
Mounted(req) == [data |-> None, loading |-> TRUE, error |-> FALSE, calls |-> {Call(req)}]

\* setLoading(true); setError(false)
Waiting(f) == [f EXCEPT !.loading = TRUE, !.error = FALSE]

\* The cleanup of the running effect, and the next one.
Cancelled(f) == {[c EXCEPT !.live = FALSE] : c \in f.calls}
Refetched(f, req) == [f EXCEPT !.calls = Cancelled(f) \cup {Call(req)}]
CanRefetch(f) == Cardinality(f.calls) < MaxCalls

\* Answers: `if (!cancelled)'.
HeardAlways(c) == TRUE
Heard(c) == c.live
Taken(f, c) == [f EXCEPT !.calls = @ \ {c}]
Answered(f, c, data) ==
  IF Heard(c) THEN [Taken(f, c) EXCEPT !.data = data, !.loading = FALSE] ELSE Taken(f, c)
FailedSilently(f, c) == IF Heard(c) THEN [Taken(f, c) EXCEPT !.error = TRUE] ELSE Taken(f, c)
Failed(f, c) ==
  IF Heard(c) THEN [Taken(f, c) EXCEPT !.error = TRUE, !.loading = FALSE] ELSE Taken(f, c)

\* A call that is still heard is under way.
Live(f) == \E c \in f.calls : c.live
=============================================================================
