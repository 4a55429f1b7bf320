---------------------------- MODULE MCWebsetRun ----------------------------
(* Instances of WebsetRun for TLC. *)
EXTENDS WebsetRun, TLC

CONSTANTS c1, c2

CallerSymmetry == Permutations(Callers)
-----------------------------------------------------------------------------
(* What docstrings and comments say and the code does not keep.  No run    *)
(* checks these: put into the cfg of the run, each one is violated (README, *)
(* section 5).                                                             *)

(* service.add_search: it will "schedule its run"; so every search ends.   *)
SearchesSettle ==
  \A s \in Searches : search[s] = "running" ~> search[s] \in Terminal

(* _finalize: emitting for every idle search "recovers an idle event lost  *)
(* to a crash between the search settle and the webset flip/emit".         *)
IdleIsAnnounced ==
  \A s \in Searches :
    webset = "idle" /\ search[s] = "idle"
      ~> <<"idle", s>> \in events \/ search[s] # "idle" \/ webset # "idle"

(* _fail: after a "crash between a failed settle and its event", "the      *)
(* latest generation carries the terminal event".                          *)
FailureIsAnnounced ==
  (\E s \in Searches : search[s] = "failed")
    ~> (\E s \in Searches : <<"failed", s>> \in events)

(* store docstring: "websets and searches only move running ->             *)
(* idle|failed|cancelled (idle is sticky ...)".                            *)
TerminalIsSticky ==
  [][/\ webset \in Terminal => webset' = webset
     /\ \A s \in Searches : search[s] \in Terminal => search'[s] = search[s]]_vars

(* service.cancel_webset: "the runner stops scheduling": also in a refresh *)
(* of an idle webset no variant is recalled once the search is cancelled.  *)
CancelStopsRecall ==
  [][webset = "idle" /\ pc = "variant" /\ pc' = "recall"
       => search[cur] # "cancelled"]_vars

(* service._require_refreshable: a running search on a cancelled webset    *)
(* "could never settle and would be re-selected by startup resume          *)
(* forever", so there is none once all tasks and requests are through.     *)
NoWorkOnCancelled ==
  webset = "cancelled" /\ pc = "off" /\ (\A c \in Callers : call[c] = "none")
    => Running = {}
=============================================================================
