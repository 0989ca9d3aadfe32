------------------------------ MODULE ChainTools ------------------------------
(***************************************************************************)
(* The tools that act on a chain, and those that report about one: an      *)
(* Ethereum account is taken through several dependent transactions by the *)
(* custody run (CustodyRun) and the forward transfer (ForwardTransfer);    *)
(* one transaction is seen through an endpoint (EvmObserve), one message   *)
(* through the observations its adapters deliver (ObservationLog), and the *)
(* supply through an inventory of transfers and a snapshot of both ledgers *)
(* (TransferStatus).  They share no state: each is run by itself, the      *)
(* others at rest.                                                         *)
(***************************************************************************)
EXTENDS CustodyRun

CONSTANTS Pairs, ApprovalNonce, FirstNonces,
          Names, MaxHeight, MaxViews, MaxStale,
          Identity, Blocks, MaxDeliveries, MaxReorganizations,
          Transfers, DirectionOf, TransferAmount, EthereumMaxAge, SolanaMaxAge,
          MaxBlocks, ReportTime, MaxMovements

VARIABLES running,
          place, quoted, phase, requested, existing, start, executed, settled,
          views, reading, read, stale, result,
          placed, final, true, log, lost,
          clock, eth, sol, sourceAt, settledAt, movements,
          stage, inventory, before, after, snapshot, report, tips

forwardVars == <<place, quoted, phase, requested, existing, start, executed, settled>>
observeVars == <<views, reading, read, stale, result>>
logVars == <<placed, final, true, log, lost>>
statusVars == <<clock, eth, sol, sourceAt, settledAt, movements,
                stage, inventory, before, after, snapshot, report, tips>>
toolVars == <<running, vars, forwardVars, observeVars, logVars, statusVars>>

Forward == INSTANCE ForwardTransfer WITH final <- settled
Observe == INSTANCE EvmObserve WITH at <- reading
Log == INSTANCE ObservationLog
Status == INSTANCE TransferStatus
            WITH now <- clock, at <- stage, Amount <- TransferAmount,
                 MaxTime <- ReportTime, MaxOutside <- MaxMovements

ASSUME ToolsAssumption ==
  /\ Forward!PairsAssumption /\ Observe!ObserveAssumption
  /\ Log!LogAssumption /\ Status!StatusAssumption

ToolsInit ==
  /\ running \in {"CustodyRun", "ForwardTransfer", "EvmObserve", "ObservationLog", "TransferStatus"}
  /\ Init /\ Forward!Init /\ Observe!Init /\ Log!Init /\ Status!Init
  /\ running # "ForwardTransfer" => existing = "less" /\ \A n \in FirstNonces : start <= n

RunCustody ==
  running = "CustodyRun" /\ Next
    /\ UNCHANGED <<running, forwardVars, observeVars, logVars, statusVars>>

RunForward ==
  running = "ForwardTransfer" /\ Forward!Next
    /\ UNCHANGED <<running, vars, observeVars, logVars, statusVars>>

RunObserve ==
  running = "EvmObserve" /\ Observe!Next
    /\ UNCHANGED <<running, vars, forwardVars, logVars, statusVars>>

RunLog ==
  running = "ObservationLog" /\ Log!Next
    /\ UNCHANGED <<running, vars, forwardVars, observeVars, statusVars>>

RunStatus ==
  running = "TransferStatus" /\ Status!Next
    /\ UNCHANGED <<running, vars, forwardVars, observeVars, logVars>>

ToolsNext == RunCustody \/ RunForward \/ RunObserve \/ RunLog \/ RunStatus

ToolsSpec == ToolsInit /\ [][ToolsNext]_toolVars

\* The promises of the forward transfer (see ForwardTransfer).
EverySendIsCovered == Forward!EverySendIsCovered
NoNonceGap == Forward!NoNonceGap

\* What observe() answers (see EvmObserve), what projectMessage() makes of its
\* log (see ObservationLog), and what the supply report says (see TransferStatus).
AnswerIsTrue == Observe!AnswerIsTrue
StatusIsTrue == Log!StatusIsTrue
ReorgSticks == Log!ReorgSticks
ReportIsTrue == Status!ReportIsTrue
=============================================================================
