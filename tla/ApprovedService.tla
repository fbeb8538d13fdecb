--------------------------- MODULE ApprovedService ---------------------------
(***************************************************************************)
(* What the supervisor promises its readers, with no task, lock, session   *)
(* or teardown in sight: a table of records, and for each key the revision *)
(* whose tools the gateway serves.  An edit, a disable or a removal        *)
(* withdraws what is served in the same step as it changes the record, and *)
(* serving starts only from an enabled record whose revision is approved.  *)
(* ChildLifecycle is shown to implement it, with its tasks and locks; and  *)
(* so is Gateway, with its files, failed writes and crashes.               *)
(***************************************************************************)
CONSTANTS Key, AdminKey, Rev, None

VARIABLES
  record,    \* the stored record of each key
  serving    \* the revision the gateway serves for each key

svars == <<record, serving>>

SRecord == [rev : Rev, approved : Rev \cup {None}, enabled : BOOLEAN]

MayServe(k) ==
  /\ record[k] # None
  /\ record[k].enabled
  /\ k \in AdminKey \/ record[k].approved = record[k].rev

\* What is served was reviewed, and is what the store holds now.
ServedIsReviewed ==
  \A k \in Key : serving[k] # None => MayServe(k) /\ serving[k] = record[k].rev

SInit ==
  /\ record \in [Key -> SRecord \cup {None}]
  /\ serving \in [Key -> Rev \cup {None}]
  /\ ServedIsReviewed

\* A new record awaits approval: it carries none.
Register(k) ==
  /\ record[k] = None
  /\ \E r \in Rev, e \in BOOLEAN :
       record' = [record EXCEPT ![k] = [rev |-> r, approved |-> None, enabled |-> e]]
  /\ UNCHANGED serving

\* An edit, an enable or a disable keeps the approval it finds.
Edit(k) ==
  /\ record[k] # None
  /\ \E r \in Rev, e \in BOOLEAN :
       record' = [record EXCEPT ![k] =
                    [rev |-> r, approved |-> @.approved, enabled |-> e]]
  /\ serving' = [serving EXCEPT ![k] = None]

Delete(k) ==
  /\ record[k] # None
  /\ record' = [record EXCEPT ![k] = None]
  /\ serving' = [serving EXCEPT ![k] = None]

\* Approval names the stored revision, and takes nothing down.
Review(k) ==
  /\ record[k] # None
  /\ record' = [record EXCEPT ![k] =
                  [rev |-> @.rev, approved |-> @.rev, enabled |-> @.enabled]]
  /\ UNCHANGED serving

Serve(k) ==
  /\ serving[k] = None
  /\ MayServe(k)
  /\ serving' = [serving EXCEPT ![k] = record[k].rev]
  /\ UNCHANGED record

Stop(k) ==
  /\ serving' = [serving EXCEPT ![k] = None]
  /\ UNCHANGED record

\* The gateway dies: nothing is served, and no record is lost or changed.
StopAll ==
  /\ serving' = [k \in Key |-> None]
  /\ UNCHANGED record

SNext ==
  \/ \E k \in Key : Register(k) \/ Edit(k) \/ Delete(k) \/ Review(k) \/ Serve(k) \/ Stop(k)
  \/ StopAll

SSpec == SInit /\ [][SNext]_svars
==============================================================================
