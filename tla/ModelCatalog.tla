----------------------------- MODULE ModelCatalog -----------------------------
(***************************************************************************)
(* OllamaModelCatalog and its OllamaModelManagers: one background thread a *)
(* model at most, and one of them at a time, pulls weights through the API *)
(* of an Ollama server, which may go away and come back.  Operations come  *)
(* one at a time from the worker's main loop.                              *)
(***************************************************************************)
EXTENDS Integers, FiniteSets

CONSTANTS
    Model,     \* the models of the catalog
    Base,      \* the required one
    MaxWords,  \* bound: answers of the user
    MaxMishaps \* bound: servers lost, models removed by hand, workers dying

ASSUME ModelAssumption ==
    Base \in Model /\ "nobody" \notin Model /\ {MaxWords, MaxMishaps} \subseteq Nat

VARIABLES
    reachable,  \* the server answers
    stored,     \* the models it has
    wish,       \* rows of model_decisions; a "later" whose time is over is "lapsed"
    status,     \* _status of each manager
    puller,     \* how far _thread of each manager is, "none" when it is not alive
    lifecycle,  \* _lifecycle_lock: the model whose thread holds it, or "nobody"
    ensuring,   \* ensure_base() has seen the base model and goes on
    agreed,     \* history: the models whose thread was started on the user's word
    unseen,     \* history: models that were removed by hand, or whose server was lost
    words, mishaps  \* counters of the bounds

modelVars == <<reachable, stored, wish, status, puller, lifecycle, ensuring, agreed,
               unseen, words, mishaps>>

ModelTypeOK ==
    /\ reachable \in BOOLEAN /\ ensuring \in BOOLEAN
    /\ stored \subseteq Model /\ agreed \subseteq Model /\ unseen \subseteq Model
    /\ wish \in [Model -> {"unset", "download", "later", "lapsed", "never"}]
    /\ status \in [Model -> {"checking", "starting", "downloading", "ready",
                             "unavailable", "error"}]
    /\ puller \in [Model -> {"none", "wait", "check", "pull", "end"}]
    /\ lifecycle \in Model \cup {"nobody"}
    /\ words \in 0 .. MaxWords /\ mishaps \in 0 .. MaxMishaps

ModelInit ==
    /\ reachable \in BOOLEAN /\ stored = {}
    /\ wish = [m \in Model |-> "unset"]
    /\ status = [m \in Model |-> "checking"]
    /\ puller = [m \in Model |-> "none"]
    /\ lifecycle = "nobody" /\ ensuring = FALSE
    /\ agreed = {} /\ unseen = {}
    /\ words = 0 /\ mishaps = 0

\* _model_present(): not without the server.
Present(m) == reachable /\ m \in stored

-----------------------------------------------------------------------------

\* OllamaModelManager.ensure(), called with this decision of the user stored.
Ensure(m, word) ==
    IF puller[m] # "none" THEN UNCHANGED <<status, puller, agreed>>
    ELSE IF Present(m) THEN status' = [status EXCEPT ![m] = "ready"] /\ UNCHANGED <<puller, agreed>>
    ELSE /\ status' = [status EXCEPT ![m] = "starting"]
         /\ puller' = [puller EXCEPT ![m] = "wait"]
         /\ agreed' = IF word = "download" THEN agreed \cup {m} ELSE agreed \ {m}

\* _view(), which starts work only when the user has agreed to it.
View(m, word) ==
    IF ~Present(m) /\ word = "download" THEN Ensure(m, word)
    ELSE UNCHANGED <<status, puller, agreed>>

ReadCatalog(m) ==
    /\ ~ensuring
    /\ View(m, wish[m])
    /\ UNCHANGED <<reachable, stored, wish, lifecycle, ensuring, unseen, words, mishaps>>

\* respond() stores the decision; a thread at work is left alone.
RespondModel(m, word) ==
    /\ ~ensuring
    /\ words < MaxWords /\ words' = words + 1
    /\ wish' = [wish EXCEPT ![m] = word]
    /\ View(m, word)
    /\ UNCHANGED <<reachable, stored, lifecycle, ensuring, unseen, mishaps>>

\* _ensure() of the base model asks whether it is installed ...
EnsureBase ==
    /\ ~ensuring
    /\ IF Present(Base) THEN ensuring' = TRUE /\ UNCHANGED <<status, puller, agreed>>
       ELSE /\ UNCHANGED ensuring
            /\ View(Base, wish[Base])
    /\ UNCHANGED <<reachable, stored, wish, lifecycle, unseen, words, mishaps>>

\* ... and ensure() asks again.
EnsureSeen ==
    /\ ensuring /\ ensuring' = FALSE
    /\ Ensure(Base, wish[Base])
    /\ UNCHANGED <<reachable, stored, wish, lifecycle, unseen, words, mishaps>>

WishLapses(m) ==
    /\ wish[m] = "later" /\ wish' = [wish EXCEPT ![m] = "lapsed"]
    /\ UNCHANGED <<reachable, stored, status, puller, lifecycle, ensuring, agreed, unseen,
                   words, mishaps>>

-----------------------------------------------------------------------------
(* _ensure_worker()                                                          *)

\* Mutant of TakeLifecycle: every manager has a lock of its own.
TakeOwnLock(m) ==
    /\ puller[m] = "wait"
    /\ lifecycle' = m
    /\ puller' = [puller EXCEPT ![m] = "check"]
    /\ UNCHANGED <<reachable, stored, wish, status, ensuring, agreed, unseen, words, mishaps>>

\* The thread gets the lifecycle lock and asks the server first.
TakeLifecycle(m) ==
    /\ puller[m] = "wait" /\ lifecycle = "nobody"
    /\ lifecycle' = m
    /\ puller' = [puller EXCEPT ![m] = "check"]
    /\ UNCHANGED <<reachable, stored, wish, status, ensuring, agreed, unseen, words, mishaps>>

\* _set_status() with what came of it; the lock is released.
Leave(m, outcome) ==
    /\ status' = [status EXCEPT ![m] = outcome]
    /\ puller' = [puller EXCEPT ![m] = "none"]
    /\ lifecycle' = "nobody"

CheckServer(m) ==
    /\ puller[m] = "check"
    /\ \/ ~reachable /\ Leave(m, "unavailable")
       \/ Present(m) /\ Leave(m, "ready")
       \/ /\ status' = [status EXCEPT ![m] = "downloading"]
          /\ puller' = [puller EXCEPT ![m] = "pull"]
          /\ ~Present(m)
          /\ UNCHANGED lifecycle
    /\ UNCHANGED <<reachable, stored, wish, ensuring, agreed, unseen, words, mishaps>>

\* _pull_model() to its end, or an error; the last look comes after it.
Pulled(m) ==
    /\ puller[m] = "pull"
    /\ \/ /\ reachable /\ stored' = stored \cup {m}
          /\ puller' = [puller EXCEPT ![m] = "end"]
          /\ UNCHANGED <<status, lifecycle>>
       \/ Leave(m, "error") /\ UNCHANGED stored
    /\ UNCHANGED <<reachable, wish, ensuring, agreed, unseen, words, mishaps>>

LastLook(m) ==
    /\ puller[m] = "end"
    /\ Leave(m, IF Present(m) THEN "ready" ELSE "error")
    /\ UNCHANGED <<reachable, stored, wish, ensuring, agreed, unseen, words, mishaps>>

-----------------------------------------------------------------------------

ServerChanges ==
    /\ reachable => mishaps < MaxMishaps
    /\ mishaps' = IF reachable THEN mishaps + 1 ELSE mishaps
    /\ reachable' = ~reachable
    /\ unseen' = IF reachable THEN unseen \cup stored ELSE unseen
    /\ UNCHANGED <<stored, wish, status, puller, lifecycle, ensuring, agreed, words>>

\* Somebody removes a model, with another client of the server.
ModelRemoved(m) ==
    /\ mishaps < MaxMishaps /\ mishaps' = mishaps + 1
    /\ reachable /\ m \in stored
    /\ stored' = stored \ {m}
    /\ unseen' = unseen \cup {m}
    /\ UNCHANGED <<reachable, wish, status, puller, lifecycle, ensuring, agreed, words>>

\* The worker is stopped or dies, with its threads, and is started anew.
CatalogRestart ==
    /\ mishaps < MaxMishaps /\ mishaps' = mishaps + 1
    /\ status' = [m \in Model |-> "checking"]
    /\ puller' = [m \in Model |-> "none"]
    /\ lifecycle' = "nobody" /\ ensuring' = FALSE /\ agreed' = {}
    /\ UNCHANGED <<reachable, stored, wish, unseen, words>>

ModelNext ==
    \/ \E m \in Model : ReadCatalog(m) \/ WishLapses(m) \/ TakeLifecycle(m) \/ CheckServer(m)
    \/ \E m \in Model : Pulled(m) \/ LastLook(m) \/ ModelRemoved(m)
    \/ \E m \in Model, word \in {"download", "later", "never"} : RespondModel(m, word)
    \/ EnsureBase \/ EnsureSeen \/ ServerChanges \/ CatalogRestart

ModelSpec == ModelInit /\ [][ModelNext]_modelVars

-----------------------------------------------------------------------------

\* Weights are pulled only by a thread started on the user's word, except those
\* of a base model that was there and vanished, with its server or by hand:
\* ensure_base() then asks nobody.  One model is pulled at a time, and only a
\* thread at work is reported as progress.
ModelsConsented ==
    /\ \A m \in Model : puller[m] = "pull" /\ m \notin agreed => m = Base /\ m \in unseen
    /\ Cardinality({m \in Model : puller[m] \in {"check", "pull", "end"}}) <= 1
    /\ \A m \in Model :
          /\ puller[m] = "none" => status[m] \notin {"starting", "downloading"}
          /\ status[m] = "downloading" => lifecycle = m

===============================================================================
