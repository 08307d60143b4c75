------------------------------ MODULE NodeStatus ------------------------------
(***************************************************************************)
(* The status that a device sends from time to time, with the flags that   *)
(* its application set since the last one, and the image of the device     *)
(* that takes it for lost when no status came for long.  Flags are set by  *)
(* one thread and sent by another, without a lock.                         *)
(***************************************************************************)
EXTENDS Integers

CONSTANTS
  StatusFlags,     \* that an application sets
  StatusPeriod,    \* nodeStatusPeriod
  OfflineTimeout,  \* kOfflineTimeout
  MaxStatusTime,   \* bound: time
  MaxLost          \* bound: statuses lost on the bus

ASSUME NodeStatusAssumption ==
  /\ StatusPeriod \in Nat \ {0} /\ MaxStatusTime \in Nat /\ MaxLost \in Nat
  /\ OfflineTimeout \in Nat /\ OfflineTimeout > StatusPeriod

VARIABLES
  statusNow,
  statusFlags,      \* of the device's status
  nodeStatusSent,
  setting,          \* setFlags() under way: its flags, the stores it has left to do,
                    \* and, history, whether a status was made or sent meanwhile
  nextStatus,       \* nextNodeStatusTime
  onTheWay,         \* the message that sendNodeStatus() has made: its flags, or none
  image,            \* at the other end: the time of the last status, offline, flags
  untold,           \* history: flags that were set and that no status carries yet
  raced,            \* history: those of them whose setting crossed the sending of one
  lostStatuses

statusVars == <<statusNow, statusFlags, nodeStatusSent, setting, nextStatus, onTheWay, image, untold,
                raced, lostStatuses>>

-----------------------------------------------------------------------------
NotSetting == [flags |-> {}, left |-> {}, crossed |-> FALSE]

\* Slip: the last call wins.
LeftReplacing(sent) == {"assign", "clear"}
\* The flags of several calls come together until a status is sent.
Left(sent) == IF sent THEN {"assign", "clear"} ELSE {"merge"}

\* setFlags(), of the application's thread: whether a status was sent is tested ...
setFlags(f) ==
  /\ setting.left = {} /\ statusNow < MaxStatusTime
  /\ setting' = [flags |-> f, left |-> Left(nodeStatusSent), crossed |-> onTheWay # {}]
  /\ UNCHANGED <<statusNow, statusFlags, nodeStatusSent, nextStatus, onTheWay, image, untold, raced,
                 lostStatuses>>

\* ... and the stores follow, in any order: the two variables are ordinary ones.
StoreFlags(x) ==
  /\ setting' = IF setting.left = {x} THEN NotSetting ELSE [setting EXCEPT !.left = @ \ {x}]
  /\ \/ x = "assign" /\ statusFlags' = setting.flags /\ UNCHANGED nodeStatusSent
     \/ x = "merge" /\ statusFlags' = statusFlags \union setting.flags /\ UNCHANGED nodeStatusSent
     \/ x = "clear" /\ nodeStatusSent' = FALSE /\ UNCHANGED statusFlags
  /\ IF setting.left = {x}
     THEN /\ untold' = untold \union setting.flags
          /\ raced' = IF setting.crossed THEN raced \union setting.flags ELSE raced \ setting.flags
     ELSE UNCHANGED <<untold, raced>>
  /\ UNCHANGED <<statusNow, nextStatus, onTheWay, image, lostStatuses>>

\* onTimeoutOccurred() and sendNodeStatus(): the message is made ...
FillStatus ==
  /\ onTheWay = {} /\ statusNow >= nextStatus
  /\ nextStatus' = statusNow + StatusPeriod
  /\ onTheWay' = {statusFlags} /\ untold' = untold \ statusFlags /\ raced' = raced \ statusFlags
  /\ setting' = [setting EXCEPT !.crossed = setting.left # {}]
  /\ UNCHANGED <<statusNow, statusFlags, nodeStatusSent, image, lostStatuses>>

\* processNodeStatus() of the image.
imageUpdated(f) == image' = [timestamp |-> statusNow, offline |-> FALSE, flags |-> f]

\* ... and sent, or lost.
SendStatus ==
  /\ onTheWay # {}
  /\ onTheWay' = {} /\ nodeStatusSent' = TRUE
  /\ \/ /\ \E f \in onTheWay : imageUpdated(f)
        /\ UNCHANGED lostStatuses
     \/ /\ lostStatuses < MaxLost /\ lostStatuses' = lostStatuses + 1
        /\ UNCHANGED image
  /\ UNCHANGED <<statusNow, statusFlags, setting, nextStatus, untold, raced>>

\* onTimeoutOccurred() of the image.
GoesOffline ==
  /\ statusNow >= image.timestamp + OfflineTimeout /\ ~image.offline
  /\ image' = [image EXCEPT !.offline = TRUE]
  /\ UNCHANGED <<statusNow, statusFlags, nodeStatusSent, setting, nextStatus, onTheWay, untold, raced,
                 lostStatuses>>

\* The device is called again in time.
StatusTick ==
  /\ onTheWay = {} /\ statusNow < nextStatus /\ statusNow < MaxStatusTime
  /\ statusNow' = statusNow + 1
  /\ UNCHANGED <<statusFlags, nodeStatusSent, setting, nextStatus, onTheWay, image, untold, raced,
                 lostStatuses>>

StatusInit ==
  /\ statusNow = 0 /\ statusFlags = {} /\ nodeStatusSent = TRUE /\ nextStatus = 0 /\ onTheWay = {}
  /\ image = [timestamp |-> 0, offline |-> FALSE, flags |-> {}]
  /\ setting = NotSetting
  /\ untold = {} /\ raced = {} /\ lostStatuses = 0

StatusNext ==
  \/ \E f \in SUBSET StatusFlags : setFlags(f)
  \/ \E x \in setting.left : StoreFlags(x)
  \/ FillStatus \/ SendStatus \/ GoesOffline \/ StatusTick

-----------------------------------------------------------------------------
\* A flag that was set is in the next status, whatever is set after it, unless the
\* call that set it crossed the making and sending of a status: such a flag the next
\* call may replace as if it had been told (InternalCanDevice.hpp:217-225, 428-434).
\* And a device is taken for lost only when as many statuses are as fit the time but one.
StatusIsTold ==
  /\ untold \ raced \subseteq statusFlags
  /\ image.offline => (lostStatuses + 1) * StatusPeriod >= OfflineTimeout
=============================================================================
