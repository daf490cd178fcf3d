-------------------------- MODULE AccountOperations --------------------------
(***************************************************************************)
(* The AccountOperationsObserver: when an account is removed, its          *)
(* conversations are deleted through the group model of the                *)
(* NotificationManager, and its calls through a CallModel of its own.      *)
(***************************************************************************)
EXTENDS EventStore

CONSTANT MaxModels   \* bound on the removals that are seen

ASSUME ModelsAssumption == MaxModels \in Nat

VARIABLES
  watching,      \* connectToAccounts has run, or never will
  watched,       \* m_accounts: accounts whose signals are connected
  groupModel,    \* m_pGroupModel: "none", "loading", "ready" or "failed"
  pathsForConvs, \* m_accountPathsForConvs
  pathsForCalls, \* m_accountPathsForCalls: per account a model, 0 for none
  models,        \* the call models
  due,           \* events of removed accounts, there when the account went
  excused        \* those whose deletion failed, or was cut short

opsVars == <<watching, watched, groupModel, pathsForConvs, pathsForCalls, models, due,
             excused>>

\* a CallModel: the account it filters for, and its rows
CallModels == [state : {"none", "loading", "ready", "gone"}, path : Accounts \cup {""},
               calls : SUBSET Dialled]
NoModel == [state |-> "none", path |-> "", calls |-> {}]
Loading(a) == [state |-> "loading", path |-> a, calls |-> {}]
Unused == {i \in 1 .. MaxModels : models[i].state = "none"}

\* the model of which key() finds the path is deleted; one that was overwritten by
\* a later removal of the account is not found, and stays
Released(i) ==
  IF \E a \in Accounts : pathsForCalls[a] = i
  THEN /\ pathsForCalls' = [a \in Accounts |-> IF pathsForCalls[a] = i THEN 0 ELSE pathsForCalls[a]]
       /\ models' = [models EXCEPT ![i].state = "gone", ![i].calls = {}]
  ELSE /\ models' = [models EXCEPT ![i].state = "ready", ![i].calls = {}]
       /\ UNCHANGED pathsForCalls

-----------------------------------------------------------------------------
(* Watching the accounts *)

\* slotAccountManagerReady, connectToAccounts
ObserverReady ==
  /\ up
  /\ manager # "pending" /\ ~watching
  /\ watching' = TRUE
  /\ watched' = IF manager = "ready" THEN existing ELSE {}
  /\ UNCHANGED <<groupModel, pathsForConvs, pathsForCalls, models, due, excused>>

\* slotConnectToSignals of a new account
ConnectToSignals(a) ==
  /\ watched' = IF up /\ watching /\ manager = "ready" THEN watched \cup {a} ELSE watched
  /\ UNCHANGED <<watching, groupModel, pathsForConvs, pathsForCalls, models, due, excused>>

-----------------------------------------------------------------------------
(* Conversations *)

MessagesOf(S) == {e \in rows \cap Messages : Owner[e] \in S}

\* slotDeleteConversations, for the paths that wait, when the model is there
DeleteConversations(paths, listed) ==
  LET S == paths \cap listed IN
  \E ok \in Outcome("groups") :
    /\ pathsForConvs' = {}
    /\ IF S # {} /\ ok THEN WithoutGroups(S) ELSE UNCHANGED <<rows, known, conversations, bus>>
    /\ excused' = IF ok THEN excused \cup MessagesOf(paths \ listed)
                  ELSE excused \cup MessagesOf(paths)

\* the paths of removed accounts are kept until the model is there
Kept(a) == pathsForConvs \cup {a}

\* NotificationManager::groupModel(), which asks again as long as there is none
AskedModel == {IF ok THEN "loading" ELSE "none" : ok \in Outcome("getGroups")}

RequestedModel == IF groupModel = "none" THEN AskedModel ELSE {groupModel}

-----------------------------------------------------------------------------
(* The removal of an account *)

\* slotAccountRemoved
SlotAccountRemoved(a) ==
  IF up /\ a \in watched
  THEN \E i \in Unused :
       /\ \A j \in Unused : i <= j
       /\ watched' = watched \ {a}
       /\ models' = [models EXCEPT ![i] = Loading(a)]
       /\ pathsForCalls' = [pathsForCalls EXCEPT ![a] = i]
       /\ due' = due \cup {e \in rows : Owner[e] = a}
       /\ groupModel' \in RequestedModel
       /\ IF groupModel' = "ready"
          THEN DeleteConversations(Kept(a), conversations)
          ELSE /\ pathsForConvs' = Kept(a)
               /\ excused' = IF groupModel' = "loading" THEN excused
                             ELSE excused \cup MessagesOf(Kept(a))
               /\ UNCHANGED <<rows, known, conversations, bus>>
       /\ UNCHANGED <<watching, dirs, complete>>
  ELSE UNCHANGED <<storeVars, opsVars>>

\* modelReady of the group model
GroupsLoaded ==
  /\ up
  /\ groupModel = "loading"
  /\ \E ok \in Outcome("groupsReady") :
       /\ groupModel' = IF ok THEN "ready" ELSE "failed"
       /\ DeleteConversations(pathsForConvs, IF ok THEN conversations ELSE {})
  /\ UNCHANGED <<watching, watched, pathsForCalls, models, due, dirs, complete>>

-----------------------------------------------------------------------------
(* Calls *)

\* modelReady of a call model and slotDeleteCalls, which does not look at success:
\* every call is deleted by itself, and a model without calls goes at once
DeleteCalls(i) ==
  /\ up
  /\ models[i].state = "loading"
  /\ \E ok \in Outcome("calls") :
       LET own == {k \in rows \cap Dialled : Owner[k] = models[i].path}
           S   == IF ok THEN own ELSE {}
       IN  \E failed \in (IF "delete" \in MayFail THEN SUBSET S ELSE {{}}) :
             /\ rows' = rows \ (S \ failed)
             /\ bus' = Emitted(DeletedEach(S \ failed))
             /\ excused' = excused \cup failed \cup (own \ S)
             /\ IF S = {} THEN Released(i)
                ELSE /\ models' = [models EXCEPT ![i].state = "ready", ![i].calls = S]
                     /\ UNCHANGED pathsForCalls
  /\ UNCHANGED <<known, conversations, dirs, complete, watching, watched, groupModel,
                 pathsForConvs, due>>

\* mutant: the rows are counted before the row goes
OneLeft(i, k) == k \in models[i].calls /\ Cardinality(models[i].calls) = 2

\* slotRowsRemoved: the last row of the model is gone
LastOf(i, k) == models[i].calls = {k}

\* a signal of the library reaches the call models; each adds or removes a row
OpsHear(sig) ==
  LET Hears(i) == models[i].state = "ready" /\ sig.ev \in Dialled
                    /\ Owner[sig.ev] = models[i].path
      Rows(i)  == IF sig.kind = "added" THEN models[i].calls \cup {sig.ev}
                  ELSE models[i].calls \ {sig.ev}
      Ends(i)  == Hears(i) /\ sig.kind = "deleted" /\ LastOf(i, sig.ev)
      Found(i) == \E a \in Accounts : pathsForCalls[a] = i
  IN  /\ models' = [i \in 1 .. MaxModels |->
           IF Ends(i) /\ Found(i) THEN [models[i] EXCEPT !.state = "gone", !.calls = {}]
           ELSE IF Hears(i) THEN [models[i] EXCEPT !.calls = Rows(i)] ELSE models[i]]
      /\ pathsForCalls' = [a \in Accounts |->
           IF pathsForCalls[a] # 0 /\ Ends(pathsForCalls[a]) THEN 0 ELSE pathsForCalls[a]]
      /\ UNCHANGED <<watching, watched, groupModel, pathsForConvs, due, excused>>

OpsInit ==
  /\ watching = (manager = "ready")
  /\ watched = IF manager = "ready" THEN existing ELSE {}
  /\ groupModel \in AskedModel
  /\ pathsForConvs = {}
  /\ pathsForCalls = [a \in Accounts |-> 0]
  /\ models = [i \in 1 .. MaxModels |-> NoModel]
  /\ due = {}
  /\ excused = {}

\* what was to be deleted is not known to the daemon that comes after
OpsStop ==
  /\ watching' = FALSE
  /\ watched' = {}
  /\ groupModel' \in AskedModel
  /\ pathsForConvs' = {}
  /\ pathsForCalls' = [a \in Accounts |-> 0]
  /\ models' = [i \in 1 .. MaxModels |-> NoModel]
  /\ excused' = excused \cup due
  /\ UNCHANGED due

\* "so that if call and/or group models are not yet ready while more accounts are
\* being removed then all of those removed accounts are really handled": what an
\* account had in the log when it was removed goes, unless a call of the library
\* fails or the daemon stops meanwhile.
RemovedHistoryGoes == <>[](due \cap rows \subseteq excused)

\* A call model that is listed has calls to wait for, or is still loading: none is
\* kept for an account whose last call is gone.
ListedModelsWait ==
  \A a \in Accounts : pathsForCalls[a] # 0 =>
    LET m == models[pathsForCalls[a]]
    IN  m.path = a /\ (m.state = "loading" \/ (m.state = "ready" /\ m.calls # {}))

OpsTypes ==
  /\ watching \in BOOLEAN /\ watched \subseteq Accounts
  /\ groupModel \in {"none", "loading", "ready", "failed"}
  /\ pathsForConvs \subseteq Accounts
  /\ pathsForCalls \in [Accounts -> 0 .. MaxModels]
  /\ models \in [1 .. MaxModels -> CallModels]
  /\ due \subseteq Events /\ excused \subseteq Events
=============================================================================
