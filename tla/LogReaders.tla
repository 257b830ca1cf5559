------------------------------ MODULE LogReaders ------------------------------
(***************************************************************************)
(* The two readers of src/cf-log.cxx over the same log.  USE_WHOLE_READ    *)
(* decides when the program is built which one main_test uses.             *)
(***************************************************************************)
EXTENDS RawLog

CONSTANTS Tasks, TTL, StartTime, MaxTime

ASSUME WholeAssumption ==
    /\ Tasks \subseteq [job : {"play", "split"}, count : Nat, begin : Nat]
    /\ TTL \in Nat /\ StartTime \in Nat \ {0} /\ MaxTime \in Nat

VARIABLES
    USE_WHOLE_READ,
    task, pc, i, bgn, packet_cnt, key, last_expire, last_json, out, now

W == INSTANCE RawWhole

whole == <<task, pc, i, bgn, packet_cnt, key, last_expire, last_json, out, now>>

BuildInit ==
    /\ USE_WHOLE_READ \in BOOLEAN
    /\ Init
    /\ W!Init

\* while (get_next_block()), or open_raw_log_whole.
Blocks == ~USE_WHOLE_READ /\ Next /\ UNCHANGED <<whole, USE_WHOLE_READ>>
Whole ==
    /\ USE_WHOLE_READ
    /\ W!Next
    /\ UNCHANGED <<base, pos, sizes, dealt, USE_WHOLE_READ>>

main_test == Blocks \/ Whole

BuildSpec == BuildInit /\ [][main_test]_<<vars, whole, USE_WHOLE_READ>>

\* What main_test plays, or split_raw_log_whole copies, is the packets asked
\* for (RawWhole).
WholeReadIsComplete == W!WholeReadIsComplete
=============================================================================
