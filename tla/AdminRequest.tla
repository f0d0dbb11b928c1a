----------------------------- MODULE AdminRequest -----------------------------
(* admin_request (handlers/shared.py): which attempts at a REST call of the      *)
(* cluster are repeated, and what an answer looks like to the handler.  Waiting,  *)
(* encoding and the wording of errors are left out.                                *)
EXTENDS Naturals

CONSTANT MaxAttempts  \* CB_ADMIN_HTTP_RETRIES, at least 1

ASSUME RequestAssumption == MaxAttempts \in Nat \ {0}

\* How an attempt can fail: "unprocessed" is 408, 425 or 429; "unknown" is 500, 502,
\* 503 or 504, a timeout or a dropped connection; "rejected" is any other status.
Faults == {"unprocessed", "unknown", "rejected"}

IdempotentMethods == {"GET", "HEAD", "PUT", "DELETE"}

\* Defect: the method is not looked at.
RetryableAnyMethod(fault, method) == fault # "rejected"

\* _retryable, and the branches for timeouts and dropped connections.
Retryable(fault, method) ==
  fault = "unprocessed" \/ (fault = "unknown" /\ method \in IdempotentMethods)

\* Defect: one attempt too many.
RepeatsOnce(fault, method, attempt) == Retryable(fault, method) /\ attempt <= MaxAttempts

Repeats(fault, method, attempt) == Retryable(fault, method) /\ attempt < MaxAttempts

\* May an attempt that failed this way have taken effect all the same?
MayHaveApplied(fault) == fault = "unknown"
================================================================================
