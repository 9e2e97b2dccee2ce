------------------------------ MODULE MCCrypto ------------------------------
(* Instances of CryptoPool for TLC.                                          *)
EXTENDS CryptoPool, TLC

CONSTANTS c1, c2, c3, p1, p2

Txn(named, olmEvents, event) == [named |-> named, olmEvents |-> olmEvents, event |-> event]
Lists == Txn({}, FALSE, "none")

\* three handlers and no fault, so that they meet at every lock
Crowd == [perUser |-> TRUE, others |-> FALSE, files |-> {"none"}, transactions |-> {Lists, Txn({p1}, TRUE, "none")},
          atOnce |-> 3, calls |-> 3, faults |-> 0]
\* two at once, with failed calls, a restart, a hang-up
Faulty == [perUser |-> TRUE, others |-> FALSE, files |-> {"none"},
           transactions |-> {Lists, Txn({}, FALSE, "encryption")},
           atOnce |-> 2, calls |-> 3, faults |-> 1]
Uploads == [perUser |-> TRUE, others |-> FALSE, files |-> {"link"}, transactions |-> {Txn({p1}, FALSE, "member")},
            atOnce |-> 2, calls |-> 2, faults |-> 2]
\* only the bot's machine
Single == [perUser |-> FALSE, others |-> FALSE, files |-> {"link"},
           transactions |-> {Txn({}, FALSE, "member"), Txn({}, FALSE, "encryption")},
           atOnce |-> 2, calls |-> 3, faults |-> 1]
\* stops, a deleted device and failed rebuilds between two messages
Restarts == [perUser |-> TRUE, others |-> FALSE, files |-> {"none"}, transactions |-> {},
             atOnce |-> 1, calls |-> 2, faults |-> 4]
\* the bot has another device, and its own is deleted
TwoDevices == [perUser |-> FALSE, others |-> TRUE, files |-> {"none"}, transactions |-> {},
               atOnce |-> 1, calls |-> 2, faults |-> 2]

Various == {Crowd, Faulty, Uploads, Single, Restarts, TwoDevices}
Slots == Permutations({c1, c2, c3})
=============================================================================
