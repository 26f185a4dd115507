-------------------------------- MODULE Baggage --------------------------------
(***************************************************************************)
(* The part of the baggage (src/interfaces.ts, type Baggage) that carries  *)
(* the end-to-end deadline of a request from service to service.  Times    *)
(* are in clock units (the code: milliseconds since the epoch).            *)
(***************************************************************************)
EXTENDS Integers

CONSTANT DefaultTimeout   \* the environment's DEFAULT_RESPONSE_TIMEOUT

ASSUME DefaultTimeoutIsNat == DefaultTimeout \in Nat

(* An option or a baggage field that is not set.  The code tests these     *)
(* fields for truth, so undefined and 0 are one and the same to it.        *)
Absent == 0

(* Root.getExpired: the moment a request made at time t expires.  A        *)
(* method's own timeout wins over the deadline in the baggage, and that    *)
(* over the default.                                                       *)
GetExpired(expired, ownTimeout, t) ==
  CASE ownTimeout # Absent                      -> t + ownTimeout
    [] ownTimeout = Absent /\ expired # Absent  -> expired
    [] OTHER                                    -> t + DefaultTimeout

(* Mutant: the next baggage does not carry the deadline on.                *)
GetNextExpired_Dropped(expired) == Absent

(* Service.getNextBaggage: the deadline handed to the calls that a handler *)
(* makes is the one of the message it is handling.                         *)
GetNextExpired(expired) == expired

================================================================================
