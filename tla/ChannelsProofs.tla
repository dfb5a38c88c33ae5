--------------------------- MODULE ChannelsProofs ---------------------------
(* Theorems about the oneshot packet and the bounded channel, for any set of *)
(* senders, of addresses that a token can have and of capacities.            *)
EXTENDS Channels, TLAPS

(* Where the sender is with a value it has not handed over, and where it has *)
(* left the packet or is about to.                                           *)
Sending == {"write", "swap", "undo", "take"}
Parted == {"upsend", "upsignal", "drop", "dropsignal", "gone"}

(* What the cells hold for the sender, and which token it has.               *)
SenderInv ==
    /\ upgrade = "NothingSent" => ~data
    /\ spc = "write" => upgrade = "NothingSent"
    /\ spc \in {"swap", "undo", "take"} => data /\ upgrade = "SendUsed"
    /\ spc \in {"undo", "take"} => rpc = "gone"
    /\ spc \in {"idle", "upwrite", "sendsignal"} => upgrade # "GoUp"
    /\ spc \in {"upswap", "uprestore"} =>
          upgrade = "GoUp" /\ stok \in {"NothingSent", "SendUsed"} /\ (stok = "NothingSent" => ~data)
    /\ spc \in {"sendsignal", "upsignal", "dropsignal"} => stok \in Tokens

(* What the receiver relies on at each place.                                *)
ReceiverInv ==
    /\ rpc \in {"takecas", "take", "droptake"} => data /\ spc \notin Sending
    /\ rpc = "takecas" => state \in {"DATA", "DISCONNECTED"}
    /\ rpc = "take" => state \in {"EMPTY", "DISCONNECTED"}
    /\ rpc \in {"droptake", "disc", "abortdisc"} => state = "DISCONNECTED"
    /\ rpc \in {"abort", "abortcas", "abortdisc"} => mode = "timed"
    /\ rpc \in {"load", "install", "wait"} => mode # "try"
    /\ rpc = "try" => state # "EMPTY" \/ mode # "block"
    /\ rpc \in {"install", "wait", "abort", "abortcas"} => rtok \in Tokens
    /\ rpc = "install" => ~woken[rtok] /\ stok # rtok
    /\ rpc \in {"wait", "abort", "abortcas"} => state \in {rtok, "DATA", "DISCONNECTED"}

(* What the state says of the value and of the two ends.                     *)
StateInv ==
    /\ state \in Tokens =>
          /\ state = rtok /\ rpc \in {"wait", "abort", "abortcas"}
          /\ ~woken[rtok] /\ stok # rtok
          /\ data <=> spc = "swap"
    /\ state = "EMPTY" => (data <=> spc = "swap" \/ rpc = "take")
    /\ state = "DATA" =>
          /\ data
          /\ \/ spc = "undo"
             \/ spc \notin Sending /\ rpc \notin {"take", "gone", "droptake", "disc", "abortdisc"}
    /\ state = "DISCONNECTED" => spc # "undo" /\ (rpc \in {"gone", "droptake"} \/ spc \in Parted)
    /\ rpc \in {"gone", "droptake"} => state = "DISCONNECTED" \/ spc = "undo"
    /\ spc \in {"take", "uprestore", "upsend", "upsignal", "dropsignal", "gone"} => state = "DISCONNECTED"

(* Once the receiver has followed the upgrade the sender never sends through *)
(* the packet again, and only a recv_deadline gets there on its own.         *)
UpgradedInv ==
    /\ port_dropped => rpc = "gone" /\ rres = "Upgraded" /\ mode # "block"
    /\ rres = "Upgraded" =>
          /\ rpc \in {"drop", "gone"} /\ state = "DISCONNECTED" /\ upgrade # "NothingSent"
          /\ spc \notin Sending /\ (spc = "upsend" => upgrade # "GoUp")
          /\ spc \in {"upswap", "uprestore"} => stok # "NothingSent"
    /\ spc = "upsend" /\ stok # "none" =>
          /\ stok \in Tokens /\ mode # "try" /\ ~data
          /\ \/ rpc \in {"wait", "abort", "abortcas"} /\ ~woken[rtok] /\ upgrade = "GoUp"
             \/ rpc = "abortdisc" /\ upgrade = "GoUp"
             \/ rres = "Upgraded"
    /\ sres = "Panicked" => port_dropped /\ mode = "timed"

Sound == O!TypeOK /\ spc # "panicked" /\ rpc # "panicked"

PacketInv == Sound /\ SenderInv /\ ReceiverInv /\ StateInv /\ O!DrainedBeforeLeaving /\ UpgradedInv

(* Every step keeps the invariant.                                           *)
LEMMA OneshotStep == ASSUME PacketInv, O!Next \/ UNCHANGED O!vars PROVE PacketInv'
<1> USE OneshotAssumption DEF PacketInv, Sound, O!TypeOK, O!SPC, O!RPC, O!Flags, Sending, Parted,
        O!cells, O!sender, O!receiver, O!S, O!R
<1>1. CASE O!Send
  <2>1. Sound'
      BY <1>1 DEF O!Send
  <2>2. SenderInv'
      BY <1>1, Zenon DEF O!Send, SenderInv
  <2>3. ReceiverInv'
      BY <1>1 DEF O!Send, ReceiverInv, SenderInv
  <2>4. StateInv'
      BY <1>1, Zenon DEF O!Send, StateInv, SenderInv
  <2>5. O!DrainedBeforeLeaving'
      BY <1>1, Zenon DEF O!Send, O!DrainedBeforeLeaving
  <2>6. UpgradedInv'
      BY <1>1 DEF O!Send, UpgradedInv, SenderInv, ReceiverInv, StateInv, O!DrainedBeforeLeaving
  <2> QED
      BY <2>1, <2>2, <2>3, <2>4, <2>5, <2>6, Zenon
<1>2. CASE O!Upgrade
  <2>1. Sound'
      BY <1>2 DEF O!Upgrade
  <2>2. SenderInv'
      BY <1>2, Zenon DEF O!Upgrade, SenderInv
  <2>3. ReceiverInv'
      BY <1>2 DEF O!Upgrade, ReceiverInv
  <2>4. StateInv'
      BY <1>2 DEF O!Upgrade, StateInv
  <2>5. O!DrainedBeforeLeaving'
      BY <1>2, Zenon DEF O!Upgrade, O!DrainedBeforeLeaving
  <2>6. UpgradedInv'
      BY <1>2 DEF O!Upgrade, UpgradedInv, SenderInv, ReceiverInv, StateInv, O!DrainedBeforeLeaving
  <2> QED
      BY <2>1, <2>2, <2>3, <2>4, <2>5, <2>6, Zenon
<1>3. CASE O!DropSender
  <2>1. Sound'
      BY <1>3 DEF O!DropSender
  <2>2. SenderInv'
      BY <1>3, Zenon DEF O!DropSender, SenderInv
  <2>3. ReceiverInv'
      BY <1>3 DEF O!DropSender, ReceiverInv
  <2>4. StateInv'
      BY <1>3 DEF O!DropSender, StateInv
  <2>5. O!DrainedBeforeLeaving'
      BY <1>3, Zenon DEF O!DropSender, O!DrainedBeforeLeaving
  <2>6. UpgradedInv'
      BY <1>3 DEF O!DropSender, UpgradedInv, SenderInv, ReceiverInv, StateInv, O!DrainedBeforeLeaving
  <2> QED
      BY <2>1, <2>2, <2>3, <2>4, <2>5, <2>6, Zenon
<1>4. CASE O!SendWrite
  <2>1. Sound'
      BY <1>4 DEF O!SendWrite, SenderInv
  <2>2. SenderInv'
      BY <1>4, Zenon DEF O!SendWrite, SenderInv
  <2>3. ReceiverInv'
      BY <1>4 DEF O!SendWrite, ReceiverInv
  <2>4. StateInv'
      BY <1>4 DEF O!SendWrite, StateInv
  <2>5. O!DrainedBeforeLeaving'
      BY <1>4, Zenon DEF O!SendWrite, O!DrainedBeforeLeaving, UpgradedInv
  <2>6. UpgradedInv'
      BY <1>4 DEF O!SendWrite, UpgradedInv, SenderInv, ReceiverInv, StateInv, O!DrainedBeforeLeaving
  <2> QED
      BY <2>1, <2>2, <2>3, <2>4, <2>5, <2>6, Zenon
<1>5. CASE O!SendSwap
  <2>1. Sound'
      BY <1>5 DEF O!SendSwap, O!SendOutcome, StateInv
  <2>2. SenderInv'
      BY <1>5 DEF O!SendSwap, O!SendOutcome, SenderInv, ReceiverInv, StateInv
  <2>3. ReceiverInv'
      BY <1>5 DEF O!SendSwap, O!SendOutcome, ReceiverInv, StateInv
  <2>4. StateInv'
      BY <1>5 DEF O!SendSwap, O!SendOutcome, StateInv, SenderInv, ReceiverInv
  <2>5. O!DrainedBeforeLeaving'
      BY <1>5, Zenon DEF O!SendSwap, O!SendOutcome, O!DrainedBeforeLeaving
  <2>6. UpgradedInv'
      BY <1>5 DEF O!SendSwap, O!SendOutcome, UpgradedInv, SenderInv, ReceiverInv, StateInv, O!DrainedBeforeLeaving
  <2> QED
      BY <2>1, <2>2, <2>3, <2>4, <2>5, <2>6, Zenon
<1>6. CASE O!SendUndo
  <2>1. Sound'
      BY <1>6 DEF O!SendUndo
  <2>2. SenderInv'
      BY <1>6, Zenon DEF O!SendUndo, SenderInv
  <2>3. ReceiverInv'
      BY <1>6, Zenon DEF O!SendUndo, ReceiverInv
  <2>4. StateInv'
      BY <1>6, Zenon DEF O!SendUndo, StateInv, SenderInv
  <2>5. O!DrainedBeforeLeaving'
      BY <1>6, Zenon DEF O!SendUndo, O!DrainedBeforeLeaving
  <2>6. UpgradedInv'
      BY <1>6 DEF O!SendUndo, UpgradedInv, SenderInv, ReceiverInv, StateInv, O!DrainedBeforeLeaving
  <2> QED
      BY <2>1, <2>2, <2>3, <2>4, <2>5, <2>6, Zenon
<1>7. CASE O!SendTake
  <2>1. Sound'
    <3>1. spc' # "panicked" /\ rpc' # "panicked"
        BY <1>7, Zenon DEF O!SendTake, SenderInv
    <3>2. data' \in BOOLEAN /\ port_dropped' \in BOOLEAN /\ woken' \in [Tokens -> BOOLEAN]
        BY <1>7, Zenon DEF O!SendTake
    <3>3. /\ state' \in O!Flags \cup Tokens /\ upgrade' \in {"NothingSent", "SendUsed", "GoUp"}
          /\ spc' \in O!SPC /\ sres' \in {"none", "Ok", "Err", "Cloning", "Panicked"} /\ stok' \in Tokens \cup {"none", "NothingSent", "SendUsed"}
        BY <1>7, Zenon DEF O!SendTake
    <3>4. /\ rpc' \in O!RPC /\ rres' \in {"none", "Ok", "Empty", "Disconnected", "Upgraded"}
          /\ rtok' \in Tokens \cup {"none"} /\ mode' \in {"try", "block", "timed"}
        BY <1>7, Zenon DEF O!SendTake
    <3> QED
        BY <3>1, <3>2, <3>3, <3>4, Zenon
  <2>2. SenderInv'
      BY <1>7, Zenon DEF O!SendTake, SenderInv
  <2>3. ReceiverInv'
      BY <1>7 DEF O!SendTake, ReceiverInv
  <2>4. StateInv'
      BY <1>7, Zenon DEF O!SendTake, StateInv
  <2>5. O!DrainedBeforeLeaving'
      BY <1>7, Zenon DEF O!SendTake, O!DrainedBeforeLeaving
  <2>6. UpgradedInv'
      BY <1>7 DEF O!SendTake, UpgradedInv, SenderInv, ReceiverInv, StateInv, O!DrainedBeforeLeaving
  <2> QED
      BY <2>1, <2>2, <2>3, <2>4, <2>5, <2>6, Zenon
<1>8. CASE O!UpgradeWrite
  <2>1. Sound'
      BY <1>8 DEF O!UpgradeWrite, O!Prev, SenderInv
  <2>2. SenderInv'
      BY <1>8 DEF O!UpgradeWrite, O!Prev, SenderInv
  <2>3. ReceiverInv'
      BY <1>8 DEF O!UpgradeWrite, O!Prev, ReceiverInv
  <2>4. StateInv'
      BY <1>8 DEF O!UpgradeWrite, O!Prev, StateInv
  <2>5. O!DrainedBeforeLeaving'
      BY <1>8, Zenon DEF O!UpgradeWrite, O!Prev, O!DrainedBeforeLeaving
  <2>6. UpgradedInv'
      BY <1>8 DEF O!UpgradeWrite, O!Prev, UpgradedInv, SenderInv, ReceiverInv, StateInv, O!DrainedBeforeLeaving
  <2> QED
      BY <2>1, <2>2, <2>3, <2>4, <2>5, <2>6, Zenon
<1>9. CASE O!UpgradeSwap
  <2>1. Sound'
      BY <1>9 DEF O!UpgradeSwap
  <2>2. SenderInv'
      BY <1>9 DEF O!UpgradeSwap, SenderInv
  <2>3. ReceiverInv'
      BY <1>9 DEF O!UpgradeSwap, ReceiverInv, StateInv
  <2>4. StateInv'
      BY <1>9, Zenon DEF O!UpgradeSwap, StateInv
  <2>5. O!DrainedBeforeLeaving'
      BY <1>9, Zenon DEF O!UpgradeSwap, O!DrainedBeforeLeaving
  <2>6. UpgradedInv'
    <3>1. CASE state = "DISCONNECTED"
        BY <1>9, <3>1 DEF O!UpgradeSwap, UpgradedInv
    <3>2. CASE state # "DISCONNECTED"
      <4>1. /\ state' = "DISCONNECTED" /\ UNCHANGED <<data, upgrade, woken, rpc, rtok, mode, rres, port_dropped, sres>>
            /\ stok' = (IF state \in Tokens THEN state ELSE "none") /\ spc' \in {"drop", "upsend"} /\ upgrade = "GoUp"
          BY <1>9, <3>2, Zenon DEF O!UpgradeSwap, SenderInv
      <4>2. rres # "Upgraded"
          BY <3>2, Zenon DEF UpgradedInv
      <4>3. state \in Tokens => rpc \in {"wait", "abort", "abortcas"} /\ ~woken[rtok] /\ ~data /\ mode # "try"
          BY <1>9 DEF O!UpgradeSwap, StateInv, ReceiverInv
      <4> QED
          BY <4>1, <4>2, <4>3 DEF UpgradedInv
    <3> QED
        BY <3>1, <3>2, Zenon
  <2> QED
      BY <2>1, <2>2, <2>3, <2>4, <2>5, <2>6, Zenon
<1>10. CASE O!UpgradeRestore
  <2>1. Sound'
      BY <1>10 DEF O!UpgradeRestore, SenderInv
  <2>2. SenderInv'
      BY <1>10, Zenon DEF O!UpgradeRestore, SenderInv
  <2>3. ReceiverInv'
      BY <1>10 DEF O!UpgradeRestore, ReceiverInv
  <2>4. StateInv'
      BY <1>10, Zenon DEF O!UpgradeRestore, StateInv
  <2>5. O!DrainedBeforeLeaving'
      BY <1>10, Zenon DEF O!UpgradeRestore, O!DrainedBeforeLeaving
  <2>6. UpgradedInv'
      BY <1>10 DEF O!UpgradeRestore, UpgradedInv, SenderInv, ReceiverInv, StateInv, O!DrainedBeforeLeaving
  <2> QED
      BY <2>1, <2>2, <2>3, <2>4, <2>5, <2>6, Zenon
<1>11. CASE O!DropChan
  <2>1. Sound'
      BY <1>11 DEF O!DropChan
  <2>2. SenderInv'
      BY <1>11, Zenon DEF O!DropChan, SenderInv
  <2>3. ReceiverInv'
      BY <1>11 DEF O!DropChan, ReceiverInv, StateInv
  <2>4. StateInv'
      BY <1>11, Zenon DEF O!DropChan, StateInv
  <2>5. O!DrainedBeforeLeaving'
      BY <1>11, Zenon DEF O!DropChan, O!DrainedBeforeLeaving
  <2>6. UpgradedInv'
      BY <1>11 DEF O!DropChan, UpgradedInv, SenderInv, ReceiverInv, StateInv, O!DrainedBeforeLeaving
  <2> QED
      BY <2>1, <2>2, <2>3, <2>4, <2>5, <2>6, Zenon
<1>12. CASE O!Signal
  <2>1. Sound'
      BY <1>12 DEF O!Signal, SenderInv
  <2>2. SenderInv'
      BY <1>12 DEF O!Signal, SenderInv
  <2>3. ReceiverInv'
      BY <1>12 DEF O!Signal, ReceiverInv
  <2>4. StateInv'
      BY <1>12 DEF O!Signal, StateInv
  <2>5. O!DrainedBeforeLeaving'
    <3>1. UNCHANGED <<data, rres, port_dropped>> /\ (spc \in Parted => spc' \in Parted)
        BY <1>12 DEF O!Signal
    <3> QED
        BY <3>1, Zenon DEF O!DrainedBeforeLeaving
  <2>6. UpgradedInv'
      BY <1>12 DEF O!Signal, UpgradedInv, SenderInv, ReceiverInv, StateInv, O!DrainedBeforeLeaving
  <2> QED
      BY <2>1, <2>2, <2>3, <2>4, <2>5, <2>6, Zenon
<1>13. CASE O!RecvLoad
  <2>1. Sound'
    <3>1. spc' # "panicked" /\ rpc' # "panicked"
        BY <1>13, Zenon DEF O!RecvLoad
    <3>2. data' \in BOOLEAN /\ port_dropped' \in BOOLEAN /\ woken' \in [Tokens -> BOOLEAN]
        BY <1>13, Zenon DEF O!RecvLoad
    <3>3. /\ state' \in O!Flags \cup Tokens /\ upgrade' \in {"NothingSent", "SendUsed", "GoUp"}
          /\ spc' \in O!SPC /\ sres' \in {"none", "Ok", "Err", "Cloning", "Panicked"} /\ stok' \in Tokens \cup {"none", "NothingSent", "SendUsed"}
        BY <1>13 DEF O!RecvLoad
    <3>4. /\ rpc' \in O!RPC /\ rres' \in {"none", "Ok", "Empty", "Disconnected", "Upgraded"}
          /\ rtok' \in Tokens \cup {"none"} /\ mode' \in {"try", "block", "timed"}
        BY <1>13, Zenon DEF O!RecvLoad
    <3> QED
        BY <3>1, <3>2, <3>3, <3>4, Zenon
  <2>2. SenderInv'
      BY <1>13, Zenon DEF O!RecvLoad, SenderInv
  <2>3. ReceiverInv'
      BY <1>13 DEF O!RecvLoad, ReceiverInv
  <2>4. StateInv'
      BY <1>13, Zenon DEF O!RecvLoad, StateInv
  <2>5. O!DrainedBeforeLeaving'
      BY <1>13, Zenon DEF O!RecvLoad, O!DrainedBeforeLeaving
  <2>6. UpgradedInv'
      BY <1>13 DEF O!RecvLoad, UpgradedInv, SenderInv, ReceiverInv, StateInv, O!DrainedBeforeLeaving
  <2> QED
      BY <2>1, <2>2, <2>3, <2>4, <2>5, <2>6, Zenon
<1>14. CASE O!RecvInstall
  <2>1. Sound'
      BY <1>14 DEF O!RecvInstall, ReceiverInv
  <2>2. SenderInv'
      BY <1>14, Zenon DEF O!RecvInstall, SenderInv
  <2>3. ReceiverInv'
      BY <1>14 DEF O!RecvInstall, ReceiverInv
  <2>4. StateInv'
      BY <1>14 DEF O!RecvInstall, StateInv, ReceiverInv
  <2>5. O!DrainedBeforeLeaving'
      BY <1>14, Zenon DEF O!RecvInstall, O!DrainedBeforeLeaving
  <2>6. UpgradedInv'
      BY <1>14 DEF O!RecvInstall, UpgradedInv, SenderInv, ReceiverInv, StateInv, O!DrainedBeforeLeaving
  <2> QED
      BY <2>1, <2>2, <2>3, <2>4, <2>5, <2>6, Zenon
<1>15. CASE O!RecvWoken
  <2>1. Sound'
      BY <1>15 DEF O!RecvWoken, ReceiverInv
  <2>2. SenderInv'
      BY <1>15, Zenon DEF O!RecvWoken, SenderInv
  <2>3. ReceiverInv'
      BY <1>15 DEF O!RecvWoken, ReceiverInv
  <2>4. StateInv'
      BY <1>15, Zenon DEF O!RecvWoken, StateInv
  <2>5. O!DrainedBeforeLeaving'
      BY <1>15, Zenon DEF O!RecvWoken, O!DrainedBeforeLeaving
  <2>6. UpgradedInv'
      BY <1>15 DEF O!RecvWoken, UpgradedInv, SenderInv, ReceiverInv, StateInv, O!DrainedBeforeLeaving
  <2> QED
      BY <2>1, <2>2, <2>3, <2>4, <2>5, <2>6, Zenon
<1>16. CASE O!RecvTimesOut
  <2>1. Sound'
      BY <1>16 DEF O!RecvTimesOut
  <2>2. SenderInv'
      BY <1>16, Zenon DEF O!RecvTimesOut, SenderInv
  <2>3. ReceiverInv'
      BY <1>16, Zenon DEF O!RecvTimesOut, ReceiverInv
  <2>4. StateInv'
      BY <1>16 DEF O!RecvTimesOut, StateInv
  <2>5. O!DrainedBeforeLeaving'
      BY <1>16, Zenon DEF O!RecvTimesOut, O!DrainedBeforeLeaving
  <2>6. UpgradedInv'
      BY <1>16 DEF O!RecvTimesOut, UpgradedInv, SenderInv, ReceiverInv, StateInv, O!DrainedBeforeLeaving
  <2> QED
      BY <2>1, <2>2, <2>3, <2>4, <2>5, <2>6, Zenon
<1>17. CASE O!AbortLoad
  <2>1. Sound'
      BY <1>17 DEF O!AbortLoad, O!AbortOutcome, ReceiverInv
  <2>2. SenderInv'
      BY <1>17, Zenon DEF O!AbortLoad, O!AbortOutcome, SenderInv
  <2>3. ReceiverInv'
      BY <1>17 DEF O!AbortLoad, O!AbortOutcome, ReceiverInv
  <2>4. StateInv'
      BY <1>17 DEF O!AbortLoad, O!AbortOutcome, StateInv
  <2>5. O!DrainedBeforeLeaving'
      BY <1>17, Zenon DEF O!AbortLoad, O!AbortOutcome, O!DrainedBeforeLeaving
  <2>6. UpgradedInv'
      BY <1>17 DEF O!AbortLoad, O!AbortOutcome, UpgradedInv, SenderInv, ReceiverInv, StateInv, O!DrainedBeforeLeaving
  <2> QED
      BY <2>1, <2>2, <2>3, <2>4, <2>5, <2>6, Zenon
<1>18. CASE O!AbortExchange
  <2>1. Sound'
      BY <1>18 DEF O!AbortExchange, O!AbortOutcome, O!AbortedState, ReceiverInv
  <2>2. SenderInv'
      BY <1>18, Zenon DEF O!AbortExchange, O!AbortOutcome, O!AbortedState, SenderInv
  <2>3. ReceiverInv'
      BY <1>18 DEF O!AbortExchange, O!AbortOutcome, O!AbortedState, ReceiverInv
  <2>4. StateInv'
      BY <1>18 DEF O!AbortExchange, O!AbortOutcome, O!AbortedState, StateInv
  <2>5. O!DrainedBeforeLeaving'
      BY <1>18, Zenon DEF O!AbortExchange, O!AbortOutcome, O!AbortedState, O!DrainedBeforeLeaving
  <2>6. UpgradedInv'
      BY <1>18 DEF O!AbortExchange, O!AbortOutcome, O!AbortedState, UpgradedInv, SenderInv, ReceiverInv, StateInv, O!DrainedBeforeLeaving
  <2> QED
      BY <2>1, <2>2, <2>3, <2>4, <2>5, <2>6, Zenon
<1>19. CASE O!AbortDisconnected
  <2>1. Sound'
      BY <1>19 DEF O!AbortDisconnected
  <2>2. SenderInv'
      BY <1>19, Zenon DEF O!AbortDisconnected, SenderInv, ReceiverInv, StateInv
  <2>3. ReceiverInv'
      BY <1>19, Zenon DEF O!AbortDisconnected, ReceiverInv
  <2>4. StateInv'
      BY <1>19, Zenon DEF O!AbortDisconnected, StateInv
  <2>5. O!DrainedBeforeLeaving'
      BY <1>19, Zenon DEF O!AbortDisconnected, O!DrainedBeforeLeaving, ReceiverInv, StateInv
  <2>6. UpgradedInv'
      BY <1>19 DEF O!AbortDisconnected, UpgradedInv, SenderInv, ReceiverInv, StateInv, O!DrainedBeforeLeaving
  <2> QED
      BY <2>1, <2>2, <2>3, <2>4, <2>5, <2>6, Zenon
<1>20. CASE O!TryLoad
  <2>1. Sound'
      BY <1>20 DEF O!TryLoad, O!TryOutcome, ReceiverInv, StateInv
  <2>2. SenderInv'
      BY <1>20 DEF O!TryLoad, O!TryOutcome, SenderInv, StateInv
  <2>3. ReceiverInv'
      BY <1>20 DEF O!TryLoad, O!TryOutcome, ReceiverInv, SenderInv, StateInv
  <2>4. StateInv'
      BY <1>20 DEF O!TryLoad, O!TryOutcome, StateInv, SenderInv
  <2>5. O!DrainedBeforeLeaving'
      BY <1>20, Zenon DEF O!TryLoad, O!TryOutcome, O!DrainedBeforeLeaving
  <2>6. UpgradedInv'
      BY <1>20 DEF O!TryLoad, O!TryOutcome, UpgradedInv, SenderInv, ReceiverInv, StateInv, O!DrainedBeforeLeaving
  <2> QED
      BY <2>1, <2>2, <2>3, <2>4, <2>5, <2>6, Zenon
<1>21. CASE O!TryExchange
  <2>1. Sound'
      BY <1>21 DEF O!TryExchange
  <2>2. SenderInv'
      BY <1>21, Zenon DEF O!TryExchange, SenderInv
  <2>3. ReceiverInv'
      BY <1>21, Zenon DEF O!TryExchange, ReceiverInv
  <2>4. StateInv'
      BY <1>21, Zenon DEF O!TryExchange, StateInv, ReceiverInv
  <2>5. O!DrainedBeforeLeaving'
      BY <1>21, Zenon DEF O!TryExchange, O!DrainedBeforeLeaving
  <2>6. UpgradedInv'
      BY <1>21 DEF O!TryExchange, UpgradedInv, SenderInv, ReceiverInv, StateInv, O!DrainedBeforeLeaving
  <2> QED
      BY <2>1, <2>2, <2>3, <2>4, <2>5, <2>6, Zenon
<1>22. CASE O!TryTake
  <2>1. Sound'
    <3>1. spc' # "panicked" /\ rpc' # "panicked"
        BY <1>22, Zenon DEF O!TryTake, ReceiverInv
    <3>2. data' \in BOOLEAN /\ port_dropped' \in BOOLEAN /\ woken' \in [Tokens -> BOOLEAN]
        BY <1>22, Zenon DEF O!TryTake
    <3>3. /\ state' \in O!Flags \cup Tokens /\ upgrade' \in {"NothingSent", "SendUsed", "GoUp"}
          /\ spc' \in O!SPC /\ sres' \in {"none", "Ok", "Err", "Cloning", "Panicked"} /\ stok' \in Tokens \cup {"none", "NothingSent", "SendUsed"}
        BY <1>22 DEF O!TryTake
    <3>4. /\ rpc' \in O!RPC /\ rres' \in {"none", "Ok", "Empty", "Disconnected", "Upgraded"}
          /\ rtok' \in Tokens \cup {"none"} /\ mode' \in {"try", "block", "timed"}
        BY <1>22, Zenon DEF O!TryTake
    <3> QED
        BY <3>1, <3>2, <3>3, <3>4, Zenon
  <2>2. SenderInv'
      BY <1>22, Zenon DEF O!TryTake, SenderInv, ReceiverInv
  <2>3. ReceiverInv'
      BY <1>22, Zenon DEF O!TryTake, ReceiverInv
  <2>4. StateInv'
      BY <1>22, Zenon DEF O!TryTake, StateInv, ReceiverInv
  <2>5. O!DrainedBeforeLeaving'
      BY <1>22, Zenon DEF O!TryTake, O!DrainedBeforeLeaving
  <2>6. UpgradedInv'
      BY <1>22 DEF O!TryTake, UpgradedInv, SenderInv, ReceiverInv, StateInv, O!DrainedBeforeLeaving
  <2> QED
      BY <2>1, <2>2, <2>3, <2>4, <2>5, <2>6, Zenon
<1>23. CASE O!TryDisconnected
  <2>1. Sound'
    <3>1. spc' # "panicked" /\ rpc' # "panicked"
        BY <1>23, Zenon DEF O!TryDisconnected, O!TakesData
    <3>2. data' \in BOOLEAN /\ port_dropped' \in BOOLEAN /\ woken' \in [Tokens -> BOOLEAN]
        BY <1>23, Zenon DEF O!TryDisconnected, O!TakesData
    <3>3. /\ state' \in O!Flags \cup Tokens /\ upgrade' \in {"NothingSent", "SendUsed", "GoUp"}
          /\ spc' \in O!SPC /\ sres' \in {"none", "Ok", "Err", "Cloning", "Panicked"} /\ stok' \in Tokens \cup {"none", "NothingSent", "SendUsed"}
        BY <1>23 DEF O!TryDisconnected, O!TakesData
    <3>4. /\ rpc' \in O!RPC /\ rres' \in {"none", "Ok", "Empty", "Disconnected", "Upgraded"}
          /\ rtok' \in Tokens \cup {"none"} /\ mode' \in {"try", "block", "timed"}
        BY <1>23, Zenon DEF O!TryDisconnected, O!TakesData
    <3> QED
        BY <3>1, <3>2, <3>3, <3>4, Zenon
  <2>2. SenderInv'
      BY <1>23, Zenon DEF O!TryDisconnected, O!TakesData, SenderInv, ReceiverInv, StateInv
  <2>3. ReceiverInv'
      BY <1>23, Zenon DEF O!TryDisconnected, O!TakesData, ReceiverInv
  <2>4. StateInv'
      BY <1>23, Zenon DEF O!TryDisconnected, O!TakesData, StateInv, ReceiverInv
  <2>5. O!DrainedBeforeLeaving'
      BY <1>23, Zenon DEF O!TryDisconnected, O!TakesData, O!DrainedBeforeLeaving, ReceiverInv, StateInv
  <2>6. UpgradedInv'
      BY <1>23 DEF O!TryDisconnected, O!TakesData, UpgradedInv, SenderInv, ReceiverInv, StateInv, O!DrainedBeforeLeaving
  <2> QED
      BY <2>1, <2>2, <2>3, <2>4, <2>5, <2>6, Zenon
<1>24. CASE O!DropPort
  <2>1. Sound'
      BY <1>24 DEF O!DropPort, StateInv
  <2>2. SenderInv'
      BY <1>24, Zenon DEF O!DropPort, SenderInv
  <2>3. ReceiverInv'
      BY <1>24, Zenon DEF O!DropPort, ReceiverInv, SenderInv, StateInv
  <2>4. StateInv'
      BY <1>24, Zenon DEF O!DropPort, StateInv, SenderInv
  <2>5. O!DrainedBeforeLeaving'
      BY <1>24, Zenon DEF O!DropPort, O!DrainedBeforeLeaving
  <2>6. UpgradedInv'
      BY <1>24 DEF O!DropPort, UpgradedInv, SenderInv, ReceiverInv, StateInv, O!DrainedBeforeLeaving
  <2> QED
      BY <2>1, <2>2, <2>3, <2>4, <2>5, <2>6, Zenon
<1>25. CASE O!DropTake
  <2>1. Sound'
    <3>1. spc' # "panicked" /\ rpc' # "panicked"
        BY <1>25, Zenon DEF O!DropTake, ReceiverInv
    <3>2. data' \in BOOLEAN /\ port_dropped' \in BOOLEAN /\ woken' \in [Tokens -> BOOLEAN]
        BY <1>25, Zenon DEF O!DropTake
    <3>3. /\ state' \in O!Flags \cup Tokens /\ upgrade' \in {"NothingSent", "SendUsed", "GoUp"}
          /\ spc' \in O!SPC /\ sres' \in {"none", "Ok", "Err", "Cloning", "Panicked"} /\ stok' \in Tokens \cup {"none", "NothingSent", "SendUsed"}
        BY <1>25 DEF O!DropTake
    <3>4. /\ rpc' \in O!RPC /\ rres' \in {"none", "Ok", "Empty", "Disconnected", "Upgraded"}
          /\ rtok' \in Tokens \cup {"none"} /\ mode' \in {"try", "block", "timed"}
        BY <1>25, Zenon DEF O!DropTake
    <3> QED
        BY <3>1, <3>2, <3>3, <3>4, Zenon
  <2>2. SenderInv'
      BY <1>25, Zenon DEF O!DropTake, SenderInv, ReceiverInv
  <2>3. ReceiverInv'
      BY <1>25, Zenon DEF O!DropTake, ReceiverInv
  <2>4. StateInv'
      BY <1>25, Zenon DEF O!DropTake, StateInv, ReceiverInv
  <2>5. O!DrainedBeforeLeaving'
      BY <1>25, Zenon DEF O!DropTake, O!DrainedBeforeLeaving
  <2>6. UpgradedInv'
      BY <1>25 DEF O!DropTake, UpgradedInv, SenderInv, ReceiverInv, StateInv, O!DrainedBeforeLeaving
  <2> QED
      BY <2>1, <2>2, <2>3, <2>4, <2>5, <2>6, Zenon
<1>26. CASE O!PacketDrop
  <2>1. Sound'
      BY <1>26 DEF O!PacketDrop, StateInv
  <2>2. SenderInv'
      BY <1>26, Zenon DEF O!PacketDrop, SenderInv
  <2>3. ReceiverInv'
      BY <1>26, Zenon DEF O!PacketDrop, ReceiverInv
  <2>4. StateInv'
      BY <1>26, Zenon DEF O!PacketDrop, StateInv
  <2>5. O!DrainedBeforeLeaving'
      BY <1>26, Zenon DEF O!PacketDrop, O!DrainedBeforeLeaving, StateInv
  <2>6. UpgradedInv'
      BY <1>26 DEF O!PacketDrop, UpgradedInv, SenderInv, ReceiverInv, StateInv, O!DrainedBeforeLeaving
  <2> QED
      BY <2>1, <2>2, <2>3, <2>4, <2>5, <2>6, Zenon
<1>27. CASE O!DropReceiver
  <2>1. Sound'
      BY <1>27 DEF O!DropReceiver
  <2>2. SenderInv'
      BY <1>27, Zenon DEF O!DropReceiver, SenderInv
  <2>3. ReceiverInv'
      BY <1>27, Zenon DEF O!DropReceiver, ReceiverInv
  <2>4. StateInv'
      BY <1>27, Zenon DEF O!DropReceiver, StateInv
  <2>5. O!DrainedBeforeLeaving'
      BY <1>27, Zenon DEF O!DropReceiver, O!DrainedBeforeLeaving
  <2>6. UpgradedInv'
      BY <1>27 DEF O!DropReceiver, UpgradedInv, SenderInv, ReceiverInv, StateInv, O!DrainedBeforeLeaving
  <2> QED
      BY <2>1, <2>2, <2>3, <2>4, <2>5, <2>6, Zenon
<1>28. ASSUME NEW m \in {"try", "block", "timed"}, O!Receive(m) PROVE PacketInv'
  <2>1. Sound'
      BY <1>28 DEF O!Receive
  <2>2. SenderInv'
      BY <1>28 DEF O!Receive, SenderInv
  <2>3. ReceiverInv'
      BY <1>28, Zenon DEF O!Receive, ReceiverInv
  <2>4. StateInv'
      BY <1>28 DEF O!Receive, StateInv
  <2>5. O!DrainedBeforeLeaving'
      BY <1>28, Zenon DEF O!Receive, O!DrainedBeforeLeaving
  <2>6. UpgradedInv'
      BY <1>28 DEF O!Receive, UpgradedInv, SenderInv, ReceiverInv, StateInv, O!DrainedBeforeLeaving
  <2> QED
      BY <2>1, <2>2, <2>3, <2>4, <2>5, <2>6, Zenon
<1>29. CASE UNCHANGED O!vars
  <2>1. Sound'
      BY <1>29 DEF O!vars
  <2>2. SenderInv'
      BY <1>29, Zenon DEF O!vars, SenderInv
  <2>3. ReceiverInv'
      BY <1>29, Zenon DEF O!vars, ReceiverInv
  <2>4. StateInv'
      BY <1>29, Zenon DEF O!vars, StateInv
  <2>5. O!DrainedBeforeLeaving'
      BY <1>29, Zenon DEF O!vars, O!DrainedBeforeLeaving
  <2>6. UpgradedInv'
      BY <1>29 DEF O!vars, UpgradedInv, SenderInv, ReceiverInv, StateInv, O!DrainedBeforeLeaving
  <2> QED
      BY <2>1, <2>2, <2>3, <2>4, <2>5, <2>6, Zenon
<1>30. CASE O!Clone
  <2>1. Sound'
      BY <1>30 DEF O!Clone, SenderInv
  <2>2. SenderInv'
      BY <1>30 DEF O!Clone, SenderInv, UpgradedInv
  <2>3. ReceiverInv'
      BY <1>30 DEF O!Clone, ReceiverInv
  <2>4. StateInv'
      BY <1>30 DEF O!Clone, StateInv, UpgradedInv
  <2>5. O!DrainedBeforeLeaving'
      BY <1>30, Zenon DEF O!Clone, O!DrainedBeforeLeaving
  <2>6. UpgradedInv'
      BY <1>30 DEF O!Clone, UpgradedInv, SenderInv, ReceiverInv, StateInv, O!DrainedBeforeLeaving
  <2> QED
      BY <2>1, <2>2, <2>3, <2>4, <2>5, <2>6, Zenon
<1>31. CASE O!UpgradeSend
  <2>1. Sound'
      BY <1>31 DEF O!UpgradeSend, O!SendUpgraded, SenderInv
  <2>2. SenderInv'
      BY <1>31 DEF O!UpgradeSend, O!SendUpgraded, SenderInv, UpgradedInv
  <2>3. ReceiverInv'
      BY <1>31 DEF O!UpgradeSend, O!SendUpgraded, ReceiverInv
  <2>4. StateInv'
      BY <1>31 DEF O!UpgradeSend, O!SendUpgraded, StateInv, UpgradedInv
  <2>5. O!DrainedBeforeLeaving'
      BY <1>31, Zenon DEF O!UpgradeSend, O!SendUpgraded, O!DrainedBeforeLeaving
  <2>6. UpgradedInv'
      BY <1>31 DEF O!UpgradeSend, O!SendUpgraded, UpgradedInv, SenderInv, ReceiverInv, StateInv, O!DrainedBeforeLeaving
  <2> QED
      BY <2>1, <2>2, <2>3, <2>4, <2>5, <2>6, Zenon
<1>32. CASE O!SignalInherited
  <2>1. Sound'
    <3>1. woken' \in [Tokens -> BOOLEAN]
        BY <1>32, Zenon DEF O!SignalInherited
    <3> QED
        BY <1>32, <3>1 DEF O!SignalInherited
  <2>2. SenderInv'
      BY <1>32 DEF O!SignalInherited, SenderInv, UpgradedInv
  <2>3. ReceiverInv'
      BY <1>32 DEF O!SignalInherited, ReceiverInv
  <2>4. StateInv'
      BY <1>32 DEF O!SignalInherited, StateInv, UpgradedInv
  <2>5. O!DrainedBeforeLeaving'
      BY <1>32, Zenon DEF O!SignalInherited, O!DrainedBeforeLeaving
  <2>6. UpgradedInv'
      BY <1>32 DEF O!SignalInherited, UpgradedInv, SenderInv, ReceiverInv, StateInv, O!DrainedBeforeLeaving
  <2> QED
      BY <2>1, <2>2, <2>3, <2>4, <2>5, <2>6, Zenon
<1>33. CASE O!LeaveUpgraded
  <2>1. Sound'
      BY <1>33 DEF O!LeaveUpgraded, SenderInv
  <2>2. SenderInv'
      BY <1>33 DEF O!LeaveUpgraded, SenderInv, UpgradedInv
  <2>3. ReceiverInv'
      BY <1>33 DEF O!LeaveUpgraded, ReceiverInv
  <2>4. StateInv'
      BY <1>33 DEF O!LeaveUpgraded, StateInv, UpgradedInv
  <2>5. O!DrainedBeforeLeaving'
      BY <1>33, Zenon DEF O!LeaveUpgraded, O!DrainedBeforeLeaving
  <2>6. UpgradedInv'
      BY <1>33 DEF O!LeaveUpgraded, UpgradedInv, SenderInv, ReceiverInv, StateInv, O!DrainedBeforeLeaving
  <2> QED
      BY <2>1, <2>2, <2>3, <2>4, <2>5, <2>6, Zenon
<1> QED
    BY <1>1, <1>2, <1>3, <1>4, <1>5, <1>6, <1>7, <1>8, <1>9, <1>10, <1>11, <1>12, <1>13, <1>14,
       <1>15, <1>16, <1>17, <1>18, <1>19, <1>20, <1>21, <1>22, <1>23, <1>24, <1>25, <1>26, <1>27,
       <1>28, <1>29, <1>30, <1>31, <1>32, <1>33, Zenon
       DEF O!Next, O!SenderStep, O!ReceiverStep

OneshotInv == packet = "oneshot" => PacketInv

(* Throughout: the cells hold what the state says they hold, for each place  *)
(* where the two ends can be.                                                *)
THEOREM OneshotInvariant == Spec => []OneshotInv
<1>1. Init => OneshotInv
  <2> SUFFICES ASSUME O!Init PROVE PacketInv
      BY Zenon DEF Init, OneshotInv
  <2>1. Sound
      BY Zenon DEF O!Init, Sound, O!TypeOK, O!SPC, O!RPC, O!Flags
  <2>2. SenderInv /\ O!DrainedBeforeLeaving
      BY Zenon DEF O!Init, SenderInv, O!DrainedBeforeLeaving
  <2>3. ReceiverInv /\ StateInv /\ UpgradedInv
      BY OneshotAssumption, Zenon DEF O!Init, ReceiverInv, StateInv, UpgradedInv, O!Flags
  <2> QED
      BY <2>1, <2>2, <2>3, Zenon DEF PacketInv
<1>2. OneshotInv /\ [Next]_vars => OneshotInv'
  <2> SUFFICES ASSUME OneshotInv, [Next]_vars, packet' = "oneshot" PROVE PacketInv'
      BY Zenon DEF OneshotInv
  <2>1. CASE Oneshot(O!Next)
      BY <2>1, OneshotStep, Zenon DEF Oneshot, OneshotInv
  <2>2. CASE UNCHANGED vars
    <3>1. packet = "oneshot" /\ UNCHANGED O!vars
        BY <2>2, Zenon DEF vars, both, oneshot, O!vars, O!cells, O!sender, O!receiver
    <3> QED
        BY <3>1, OneshotStep, Zenon DEF OneshotInv
  <2> QED
      BY <2>1, <2>2, Zenon DEF Next, Stream, Shared, Sync
<1> QED
    BY <1>1, <1>2, PTL DEF Spec

(* No panic!, unreachable!(), unwrap or assert of oneshot.rs fires in any    *)
(* interleaving of the sender with the receiver, with as many tokens as the  *)
(* receiver's calls come to use; the unwrap in Sender::send only when the    *)
(* sleeper it found was in recv_deadline and has left since.                 *)
THEOREM OneshotNoPanic == Spec => [](packet = "oneshot" => O!NeverPanics)
<1>1. OneshotInv => (packet = "oneshot" => O!NeverPanics)
    BY Zenon DEF OneshotInv, PacketInv, Sound, UpgradedInv, O!NeverPanics
<1> QED
    BY <1>1, OneshotInvariant, PTL

(* The cells `data` and `upgrade`, which nothing but the protocol on `state` *)
(* protects, are never accessed by both ends at once.                        *)
THEOREM RaceFree == Spec => []NoDataRace
<1>1. OneshotInv => NoDataRace
    BY Zenon DEF NoDataRace, OneshotInv, PacketInv, ReceiverInv, StateInv, UpgradedInv, O!NoDataRace, Sending, Parted
<1> QED
    BY <1>1, OneshotInvariant, PTL

(* The receiver hears of a disconnection or an upgrade only when the value   *)
(* is out of the packet and the sender is through with it.                   *)
THEOREM Drained == Spec => [](packet = "oneshot" => O!DrainedBeforeLeaving)
<1>1. OneshotInv => (packet = "oneshot" => O!DrainedBeforeLeaving)
    BY Zenon DEF OneshotInv, PacketInv
<1> QED
    BY <1>1, OneshotInvariant, PTL

-----------------------------------------------------------------------------
(* The bounded channel: what SyncProofs shows of the packet alone.           *)
Bounded == INSTANCE SyncProofs WITH Tokens <- BoundedTokens

(* Packet::new is the same action there and here, ...                        *)
LEMMA SameStart == Bounded!Init <=> Sy!Init
BY Zenon
        DEF Sy!Init, Bounded!Init, Sy!None, Bounded!None

(* ... so is every step of a sender and of the receiver, ...                  *)
LEMMA SameNext == Bounded!Next <=> Sy!Next
BY Zenon
        DEF Sy!Next, Bounded!Next, Sy!ring, Bounded!ring, Sy!state, Bounded!state, Sy!sender,
            Bounded!sender, Sy!receiver, Bounded!receiver, Sy!None, Bounded!None, Sy!BufLen,
            Bounded!BufLen, Sy!Slot, Bounded!Slot, Sy!Overwrites, Bounded!Overwrites, Sy!Enqueue,
            Bounded!Enqueue, Sy!Dequeue, Bounded!Dequeue, Sy!S, Bounded!S, Sy!Send, Bounded!Send,
            Sy!HasRoom, Bounded!HasRoom, Sy!WaitForSlot, Bounded!WaitForSlot, Sy!SlotFreed,
            Bounded!SlotFreed, Sy!SendFails, Bounded!SendFails, Sy!Rendezvous, Bounded!Rendezvous,
            Sy!HandOver, Bounded!HandOver, Sy!SendEnqueues, Bounded!SendEnqueues, Sy!RendezvousEnds,
            Bounded!RendezvousEnds, Sy!TryFull, Bounded!TryFull, Sy!TrySendFails, Bounded!TrySendFails,
            Sy!TrySend, Bounded!TrySend, Sy!Signal, Bounded!Signal, Sy!Clone, Bounded!Clone,
            Sy!DropSender, Bounded!DropSender, Sy!ToWake, Bounded!ToWake, Sy!DropChan, Bounded!DropChan,
            Sy!R, Bounded!R, Sy!RecvBlocks, Bounded!RecvBlocks, Sy!Acks, Bounded!Acks, Sy!SlotGoesTo,
            Bounded!SlotGoesTo, Sy!Take, Bounded!Take, Sy!Finish, Bounded!Finish, Sy!RecvTakes,
            Bounded!RecvTakes, Sy!Wake, Bounded!Wake, Sy!TimeOut, Bounded!TimeOut, Sy!Aborted,
            Bounded!Aborted, Sy!GiveUp, Bounded!GiveUp, Sy!TryRecv, Bounded!TryRecv, Sy!SignalNext,
            Bounded!SignalNext, Sy!Canceled, Bounded!Canceled, Sy!DropPort, Bounded!DropPort,
            Sy!PacketDrop, Bounded!PacketDrop, Sy!SenderStep, Bounded!SenderStep, Sy!ReceiverStep,
            Bounded!ReceiverStep, Sy!Cardinality, Bounded!Cardinality

(* ... the state is the same, ...                                            *)
LEMMA SameVars == UNCHANGED vars => UNCHANGED Bounded!vars
BY Zenon DEF vars, both, bounded, Bounded!vars, Bounded!ring, Bounded!state, Bounded!sender, Bounded!receiver

(* ... and so are the properties.                                            *)
LEMMA SameProperties ==
    /\ Bounded!TypeOK /\ Bounded!NeverPanics => Sy!TypeOK /\ Sy!NeverPanics
    /\ Bounded!OkMeansReceived => Sy!OkMeansReceived
    /\ Bounded!TakesBackItsOwn => Sy!TakesBackItsOwn
    /\ Bounded!NoIdleSlot => Sy!NoIdleSlot
BY Zenon
        DEF Sy!TypeOK, Bounded!TypeOK, Sy!NeverPanics, Bounded!NeverPanics, Sy!OkMeansReceived,
            Bounded!OkMeansReceived, Sy!TakesBackItsOwn, Bounded!TakesBackItsOwn, Sy!NoIdleSlot,
            Bounded!NoIdleSlot, Sy!Coming, Bounded!Coming, Sy!Contents, Bounded!Contents, Sy!Buffered,
            Bounded!Buffered, Sy!BufLen, Bounded!BufLen, Sy!None, Bounded!None, Sy!Cardinality,
            Bounded!Cardinality, Sy!IsInjective, Bounded!IsInjective

(* The constants of a channel are as SyncProofs needs them.                  *)
LEMMA BoundedSetting == Bounded!Setting
BY SyncAssumption, Zenon DEF Bounded!Setting, Bounded!IsFiniteSet, IsFiniteSet, Bounded!None, Sy!None

BoundedInv == packet = "sync" => Bounded!IInv

(* Throughout: ring buffer, queue of senders, blocker and signals agree.     *)
THEOREM BoundedInvariant == Spec => []BoundedInv
<1>1. Init => BoundedInv
    BY BoundedSetting, SameStart, Bounded!Starts, Zenon DEF Init, BoundedInv
<1>2. BoundedInv /\ [Next]_vars => BoundedInv'
  <2> SUFFICES ASSUME BoundedInv, [Next]_vars, packet' = "sync" PROVE Bounded!IInv'
      BY Zenon DEF BoundedInv
  <2>1. CASE Sync(Sy!Next)
      BY <2>1, BoundedSetting, SameNext, Bounded!StepKeeps, Zenon DEF Sync, BoundedInv
  <2>2. CASE UNCHANGED vars
    <3>1. packet = "sync"
        BY <2>2, Zenon DEF vars
    <3> QED
        BY <2>2, <3>1, BoundedSetting, SameVars, Bounded!StepKeeps, Zenon DEF BoundedInv
  <2> QED
      BY <2>1, <2>2, Zenon DEF Next, Oneshot, Stream, Shared
<1> QED
    BY <1>1, <1>2, PTL DEF Spec

(* No assert, panic!(), unwrap or unreachable!() of sync.rs is reached and   *)
(* the ring buffer is full exactly where start and size say, with any        *)
(* capacity, any number of handles and any interleaving of their calls.      *)
THEOREM BoundedNoPanic == Spec => [](packet = "sync" => Sy!TypeOK /\ Sy!NeverPanics)
<1>1. BoundedInv => (packet = "sync" => Sy!TypeOK /\ Sy!NeverPanics)
    BY BoundedSetting, SameProperties, Bounded!NoPanics, Zenon DEF BoundedInv
<1> QED
    BY <1>1, BoundedInvariant, PTL

(* In a rendezvous, Ok means received: the message of a send that has        *)
(* returned is in the packet only while the receive that takes it runs.      *)
THEOREM Received == Spec => []OkMeansReceived
<1>1. BoundedInv => OkMeansReceived
    BY BoundedSetting, SameProperties, Bounded!OkReceived, Zenon DEF BoundedInv, OkMeansReceived
<1> QED
    BY <1>1, BoundedInvariant, PTL

(* A sender whose rendezvous was called off by drop_port takes back its own  *)
(* message, and one whose message was received is not told to.               *)
THEOREM TakenBack == Spec => []TakesBackItsOwn
<1>1. BoundedInv => TakesBackItsOwn
    BY BoundedSetting, SameProperties, Bounded!OwnMessage, Zenon DEF BoundedInv, TakesBackItsOwn
<1> QED
    BY <1>1, BoundedInvariant, PTL

(* A sender sleeps in acquire_send_slot, with no signal on its way, only     *)
(* while every slot is taken or freed for another sender, at any capacity.   *)
THEOREM SlotsInUse == Spec => []NoIdleSlot
<1>1. BoundedInv => NoIdleSlot
    BY BoundedSetting, SameProperties, Bounded!SlotsBusy, Zenon DEF BoundedInv, NoIdleSlot
<1> QED
    BY <1>1, BoundedInvariant, PTL
=============================================================================
