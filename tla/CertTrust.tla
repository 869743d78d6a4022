------------------------------ MODULE CertTrust ------------------------------
(***************************************************************************)
(* How service/src/cert_trust.rs decides what to do with a crosswire that  *)
(* exited on its own with a failure.                                       *)
(***************************************************************************)
EXTENDS Naturals

ExitAction == {"Retry", "PromptCert", "Fail"}

(* Broken variant: one retry too many. *)
ClassifyExitOffByOne(certChange, fast, connecting, retries, maxRetries) ==
  IF connecting /\ certChange THEN "PromptCert"
  ELSE IF retries <= maxRetries /\ fast /\ connecting THEN "Retry"
  ELSE "Fail"

(* Broken variant: a tunnel that was up is retried too. *)
ClassifyExitMidSession(certChange, fast, connecting, retries, maxRetries) ==
  IF connecting /\ certChange THEN "PromptCert"
  ELSE IF retries < maxRetries /\ fast THEN "Retry"
  ELSE "Fail"

(* classify_exit -- certChange: the scanner recovered the digest of a      *)
(* rejected certificate; fast: the run died inside FAST_FAILURE_WINDOW;    *)
(* connecting: the service is still Starting.                              *)
ClassifyExit(certChange, fast, connecting, retries, maxRetries) ==
  IF connecting /\ certChange THEN "PromptCert"
  ELSE IF retries < maxRetries /\ fast /\ connecting THEN "Retry"
  ELSE "Fail"
==============================================================================
