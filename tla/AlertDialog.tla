----------------------------- MODULE AlertDialog ----------------------------
(***************************************************************************)
(* A dialog of the web client with the hook that opens it                  *)
(* (components/mui/dialog). Its buttons and its form run handlers of the   *)
(* caller, which may return at once or later, ask to keep the dialog open, *)
(* or throw. Nobody in the client calls close of the hook. A validation of *)
(* the form that itself throws is left out.                                *)
(***************************************************************************)
VARIABLES
    open,     \* open of the hook
    loading,  \* loading of the dialog
    pending   \* the handler that runs: none, action, validating, submit or invalid

dialogVars == <<open, loading, pending>>

DialogInit == open = FALSE /\ loading = FALSE /\ pending = "none"

\* What a handler may come to: handleActionResult says whether it closes.
Result == {"close", "keep", "throws"}

Closes(result) == open' = (open /\ result # "close")

\* actions.open, which an effect may call at any time.
Open ==
    /\ ~open /\ open' = TRUE
    /\ UNCHANGED <<loading, pending>>

\* safeOnClose: Escape, the backdrop or the button in the title.
Dismiss ==
    /\ open /\ ~loading
    /\ open' = FALSE
    /\ UNCHANGED <<loading, pending>>

\* pipeHandlers around onCancel or onConfirm, with a handler that returns.
Act ==
    /\ open /\ ~loading
    /\ \E result \in Result : Closes(result)
    /\ UNCHANGED <<loading, pending>>

\* The handler returns a promise.
ActLater ==
    /\ open /\ ~loading
    /\ loading' = TRUE /\ pending' = "action"
    /\ UNCHANGED open

\* Mutant: a rejected promise leaves the dialog loading.
SettlesForgetful(result) ==
    /\ pending' = "none"
    /\ loading' = (result = "throws")
    /\ Closes(result)

\* The promise of a handler is settled.
Settles(result) ==
    /\ pending' = "none"
    /\ loading' = FALSE
    /\ Closes(result)

ActEnds == pending = "action" /\ \E result \in Result : Settles(result)

\* onSubmit of the form.
Submit ==
    /\ open /\ ~loading
    /\ loading' = TRUE /\ pending' = "validating"
    /\ UNCHANGED open

\* handleSubmit calls one of its two functions.
Validates ==
    /\ pending = "validating"
    /\ pending' \in {"submit", "invalid"}
    /\ UNCHANGED <<open, loading>>

SubmitEnds == pending = "submit" /\ \E result \in Result : Settles(result)

\* An invalid form never closes the dialog, whatever onSubmitInvalid does.
InvalidEnds ==
    /\ pending = "invalid"
    /\ pending' = "none" /\ loading' = FALSE
    /\ UNCHANGED open

HandlerEnds == ActEnds \/ Validates \/ SubmitEnds \/ InvalidEnds

DialogNext == Open \/ Dismiss \/ Act \/ ActLater \/ Submit \/ HandlerEnds

-----------------------------------------------------------------------------
(* "If the function returns a promise, the dialog will be loading status   *)
(* and wait for the promise to be resolved before closing the dialog"      *)
(* (alert-dialog.tsx, 102-103): the dialog is loading exactly while a      *)
(* handler runs, however that ended the time before, and it is open then.  *)
DialogWaits ==
    /\ loading <=> pending # "none"
    /\ loading => open
=============================================================================
