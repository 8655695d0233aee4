--------------------------- MODULE PublishedList ----------------------------
(***************************************************************************)
(* What the store promises about its two files, whatever fails and whenever*)
(* the process stops: a list made of what the state file records, and the  *)
(* old list for as long as a recovery is recorded there.  Memory, calls    *)
(* and write failures are not visible here; ProxyStore implements this.    *)
(***************************************************************************)
CONSTANTS Sources, Proxies

VARIABLES
  expected,  \* the sources the configuration names
  has,       \* there is a state file, and it is intact
  saved,     \* the state it records
  list       \* the proxies in the TXT file, {} if there is none

State == {st \in [known   : SUBSET Sources,
                   urls    : [Sources -> SUBSET Proxies],
                   pending : SUBSET Sources] :
            \A s \in Sources : s \notin st.known => st.urls[s] = {}}

Empty == [known |-> {}, urls |-> [s \in Sources |-> {}], pending |-> {}]

Init ==
  /\ expected \in SUBSET Sources
  /\ has = FALSE
  /\ saved = Empty
  /\ list \in SUBSET Proxies

(* The process is started again, perhaps with another configuration. *)
Configure ==
  /\ expected' \in SUBSET Sources
  /\ UNCHANGED <<has, saved, list>>

(* The state file is lost, damaged or set aside. *)
Lose ==
  /\ has' = FALSE
  /\ saved' = Empty
  /\ UNCHANGED <<expected, list>>

(* A list without any state behind it: all sources have to come back. *)
Recover ==
  /\ list # {}
  /\ has => saved.pending \cap expected = {} /\ saved.known \cap expected = {}
  /\ has' = TRUE
  /\ saved' = [Empty EXCEPT !.pending = expected]
  /\ UNCHANGED <<expected, list>>

(* Results are recorded.  A source stops being awaited only with a result  *)
(* of its own or when it is no longer configured, and outside recovery a   *)
(* configured source that has proxies keeps having some.                   *)
Record ==
  /\ has \/ list = {}
  /\ has' = TRUE
  /\ saved' \in State
  /\ saved.known \cap expected \subseteq saved'.known
  /\ saved'.known \subseteq expected
  /\ saved'.pending \subseteq saved.pending \cap expected
  /\ (saved.pending \cap expected) \ saved'.pending \subseteq saved'.known
  /\ saved.pending = {} =>
       \A s \in expected : saved.urls[s] # {} => saved'.urls[s] # {}
  /\ UNCHANGED <<expected, list>>

(* The list is replaced by recorded proxies, once no source is awaited. *)
Publish ==
  /\ has
  /\ saved.pending = {}
  /\ list' \subseteq UNION {saved.urls[s] : s \in saved.known}
  /\ UNCHANGED <<expected, has, saved>>

Next == Configure \/ Lose \/ Recover \/ Record \/ Publish

Spec == Init /\ [][Next]_<<expected, has, saved, list>>
=============================================================================
