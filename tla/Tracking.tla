------------------------------ MODULE Tracking ------------------------------
(***************************************************************************)
(* What the user is told of his transfer: the page (useTransferPolling and *)
(* useBridgeStore) follows it by polling the API and by a stream of        *)
(* events; the API (routes/transfer.ts, utils/transfer-store.ts) keeps a   *)
(* row per transfer, which the page registers and the validators notify,   *)
(* and asks the DCC contracts while the row does not say completed.        *)
(*                                                                         *)
(* The page has one transfer at a time.  A request for status that it no   *)
(* longer needs is not cancelled, and an answer is applied to whatever     *)
(* transfer is active when it comes.                                       *)
(***************************************************************************)
EXTENDS Naturals, Sequences

CONSTANTS
  Sol,           \* deposits of SOL (DepositForm)
  Token,         \* deposits of tokens (useMintFlow)
  Blind,         \* manual deposits and redemptions, followed under an id that
                 \* no contract and no validator uses
  Slots,         \* requests for status under way at a time
  MaxEvents      \* bound of the model: transfers the user starts, and requests,
                 \* reads and streams that fail

VARIABLES
  active,        \* activeTransfer: its id, and the status that is shown
  stream,        \* the EventSource of the effect, and the events on their way
  asks,          \* requests GET /transfer/:id
  rows,          \* table transfers
  mail,          \* requests to register and to notify on their way to the API
  confirming,    \* token deposits whose confirmation the page still waits for
  validators,    \* what the validators have done with a transfer
  sends, faults

vars == <<active, stream, asks, rows, mail, confirming, validators, sends, faults>>

Known == Sol \cup Token
Transfers == Known \cup Blind
NoTransfer == [id |-> "none", shown |-> "none"]
Closed == [at |-> "closed", events |-> <<>>]
NoAsk == [at |-> "idle", id |-> "none", status |-> "none"]
Letter(t, kind) == [id |-> t, kind |-> kind]

Init ==
  /\ active = NoTransfer /\ stream = Closed
  /\ asks = [s \in Slots |-> NoAsk]
  /\ rows = [t \in Transfers |-> "none"]
  /\ mail = {} /\ confirming = {}
  /\ validators = [t \in Transfers |-> "unseen"]
  /\ sends = 0 /\ faults = 0

Faulty == sends + faults < MaxEvents /\ faults' = faults + 1

\* updateTransferStatus of the store
Shown(status) == IF active = NoTransfer THEN active ELSE [active EXCEPT !.shown = status]

\* Both the poll and the stream compare with the status the effect began with.
Told(status) == IF status \in {"none", "pending"} THEN active ELSE Shown(status)

(***************************************************************************)
(* The page                                                                *)
(***************************************************************************)
\* The deposit is on its way; the effect for its id opens the stream.
Send(t) ==
  /\ active = NoTransfer /\ sends + faults < MaxEvents /\ sends' = sends + 1
  /\ validators[t] = "unseen"
  /\ active' = [id |-> t, shown |-> "pending"]
  /\ stream' = [Closed EXCEPT !.at = "opening"]
  /\ validators' = [validators EXCEPT ![t] = "deposited"]
  /\ mail' = IF t \in Known THEN mail \cup {Letter(t, "register")} ELSE mail
  /\ confirming' = IF t \in Token THEN confirming \cup {t} ELSE confirming
  /\ UNCHANGED <<asks, rows, faults>>

Confirmed(t) ==
  /\ t \in confirming /\ confirming' = confirming \ {t}
  /\ active' = Shown("working")
  /\ UNCHANGED <<stream, asks, rows, mail, validators, sends, faults>>

\* clearActiveTransfer
Leave ==
  /\ active # NoTransfer
  /\ active' = NoTransfer /\ stream' = Closed
  /\ UNCHANGED <<asks, rows, mail, confirming, validators, sends, faults>>

Event ==
  /\ stream.events # <<>>
  /\ active' = Told(Head(stream.events))
  /\ stream' = [stream EXCEPT !.events = Tail(@)]
  /\ UNCHANGED <<asks, rows, mail, confirming, validators, sends, faults>>

Break ==
  /\ stream # Closed /\ Faulty
  /\ stream' = Closed
  /\ UNCHANGED <<active, asks, rows, mail, confirming, validators, sends>>

\* fetchStatus, every five seconds, also when the transfer is completed
Ask(s) ==
  /\ asks[s] = NoAsk /\ active # NoTransfer
  /\ asks' = [asks EXCEPT ![s] = [NoAsk EXCEPT !.at = "sent", !.id = active.id]]
  /\ UNCHANGED <<active, stream, rows, mail, confirming, validators, sends, faults>>

Hear(s) ==
  /\ asks[s].at = "answered"
  /\ asks' = [asks EXCEPT ![s] = NoAsk]
  /\ \/ active' = Told(asks[s].status) /\ UNCHANGED faults
     \/ UNCHANGED active /\ Faulty
  /\ UNCHANGED <<stream, rows, mail, confirming, validators, sends>>

(***************************************************************************)
(* The API                                                                 *)
(***************************************************************************)
Read(s) ==
  /\ asks[s].at = "sent"
  /\ asks' = [asks EXCEPT ![s].at = "read", ![s].status = rows[asks[s].id]]
  /\ UNCHANGED <<active, stream, rows, mail, confirming, validators, sends, faults>>

ResolveFromRow(s) ==   \* mutation: the contracts are not asked
  /\ asks[s].at = "read"
  /\ asks' = [asks EXCEPT ![s].at = "answered"]
  /\ UNCHANGED <<active, stream, rows, mail, confirming, validators, sends, faults>>

\* resolveOnChainStatus; a contract that cannot be asked is passed over.
Resolve(s) ==
  LET t == asks[s].id
      row == asks[s].status
  IN
  /\ asks[s].at = "read"
  /\ \/ /\ row # "completed" /\ validators[t] = "minted"
        /\ asks' = [asks EXCEPT ![s].at = "answered", ![s].status = "completed"]
        /\ rows' = IF row = "none" THEN rows ELSE [rows EXCEPT ![t] = "completed"]
        /\ UNCHANGED faults
     \/ /\ asks' = [asks EXCEPT ![s].at = "answered"] /\ UNCHANGED rows
        /\ IF row # "completed" /\ validators[t] = "minted" THEN Faulty ELSE UNCHANGED faults
  /\ UNCHANGED <<active, stream, mail, confirming, validators, sends>>

\* The stream begins with the row.
Open ==
  /\ stream.at = "opening"
  /\ stream' = [at |-> "open", events |-> IF rows[active.id] = "none" THEN <<>>
                                          ELSE <<rows[active.id]>>]
  /\ UNCHANGED <<active, asks, rows, mail, confirming, validators, sends, faults>>

\* INSERT OR IGNORE
Register(t) ==
  /\ Letter(t, "register") \in mail /\ mail' = mail \ {Letter(t, "register")}
  /\ rows' = [rows EXCEPT ![t] = IF @ = "none" THEN "pending" ELSE @]
  /\ UNCHANGED <<active, stream, asks, confirming, validators, sends, faults>>

\* notify-complete updates the row whatever it says, and if there is one;
\* completed ends the stream.
Notify(t, status) ==
  /\ Letter(t, status) \in mail /\ mail' = mail \ {Letter(t, status)}
  /\ rows' = [rows EXCEPT ![t] = IF @ = "none" THEN @ ELSE status]
  /\ stream' = IF active.id = t /\ stream.at = "open"
               THEN [at |-> IF status = "completed" THEN "closed" ELSE "open",
                     events |-> Append(stream.events, status)]
               ELSE stream
  /\ UNCHANGED <<active, asks, confirming, validators, sends, faults>>

\* A request is lost, or the API's key is not configured.
Lost ==
  /\ Faulty
  /\ \E letter \in mail : mail' = mail \ {letter}
  /\ UNCHANGED <<active, stream, asks, rows, confirming, validators, sends>>

(***************************************************************************)
(* The validators: notifyApiStatus does not wait for its answer            *)
(***************************************************************************)
Work(t) ==
  /\ t \in Known /\ validators[t] = "deposited"
  /\ validators' = [validators EXCEPT ![t] = "working"]
  /\ mail' = mail \cup {Letter(t, "working")}
  /\ UNCHANGED <<active, stream, asks, rows, confirming, sends, faults>>

Mint(t) ==
  /\ t \in Known /\ validators[t] \in {"deposited", "working"}
  /\ validators' = [validators EXCEPT ![t] = "minted"]
  /\ mail' = mail \cup {Letter(t, "completed")}
  /\ UNCHANGED <<active, stream, asks, rows, confirming, sends, faults>>

Follow == Event \/ Open \/ \E s \in Slots : Ask(s) \/ Read(s) \/ Resolve(s) \/ Hear(s)

Next ==
  \/ Follow \/ Leave \/ Break \/ Lost
  \/ \E t \in Transfers : \/ Send(t) \/ Confirmed(t) \/ Register(t) \/ Work(t) \/ Mint(t)
                          \/ Notify(t, "working") \/ Notify(t, "completed")

\* The page polls by setInterval and its requests time out.
Spec == Init /\ [][Next]_vars /\ WF_vars(Follow)

----------------------------------------------------------------------------
\* A user who stays with a transfer that was minted is in the end shown that it
\* is completed, and nothing else any more: however the page and the validators
\* race for the row, however late a notification or a stale answer comes, and
\* whichever of them are lost.
ShownInTheEnd ==
  <>[](\A t \in Known :
         active.id = t /\ validators[t] = "minted" => active.shown = "completed")
=============================================================================
