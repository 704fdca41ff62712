---------------------------- MODULE Application ----------------------------
(* One application process: what it does with its database (a transaction and *)
(* the work it defers, a row and the models of it, relations that are edited  *)
(* and read, a query that two tasks hold, tables walked and paged through, a  *)
(* search index, the schema), a browser's session and those who act in it, a  *)
(* user's logins, a feature flag, the files of a model, the events it         *)
(* dispatches, what it sends, relays and fetches, the requests it answers and *)
(* the input it validates, the jobs it works off, and around them its life,   *)
(* its resources and its container. The parts share no state: each relies on  *)
(* its own tables and objects.                                                *)
EXTENDS Transactions, Records, Pivot, Relations, Query, SearchIndex, Migrations,
        Sessions, Logins, Features, Lifecycle, Container, Media, Events, Delivery, Relay,
        HttpClient, Pipeline, Validation, Identities, Working

dbVars ==
    <<txVars, recordVars, pivotVars, relationVars,
      queryVars, walkVars, pageVars, indexVars,
      migrationVars>>
vars ==
    <<dbVars, sessionVars, loginVars, featureVars, lifeVars,
      containerVars, mediaVars, eventVars, deliveryVars,
      relayVars, clientVars, pipelineVars, formVars,
      identityVars, workingVars>>

TypeOK ==
    /\ TxTypeOK /\ RecordsTypeOK /\ PivotTypeOK /\ RelationsTypeOK
    /\ QueryTypeOK /\ WalkTypeOK /\ PagesTypeOK /\ IndexTypeOK
    /\ MigrationsTypeOK /\ SessionsTypeOK /\ LoginsTypeOK /\ FeaturesTypeOK
    /\ LifeTypeOK /\ ContainerTypeOK /\ MediaTypeOK /\ EventsTypeOK
    /\ DeliveryTypeOK /\ RelayTypeOK /\ ClientTypeOK /\ PipelineTypeOK
    /\ FormsTypeOK /\ IdentitiesTypeOK /\ WorkingTypeOK

DatabaseInit ==
    /\ TxInit /\ RecordsInit /\ PivotInit /\ RelationsInit
    /\ QueryInit /\ WalkInit /\ PagesInit /\ IndexInit
    /\ MigrationsInit

Init ==
    /\ DatabaseInit
    /\ SessionsInit /\ LoginsInit /\ FeaturesInit /\ LifeInit
    /\ ContainerInit /\ MediaInit /\ EventsInit /\ DeliveryInit
    /\ RelayInit /\ ClientInit /\ PipelineInit /\ FormsInit
    /\ IdentitiesInit /\ WorkingInit

Transacts ==
    /\ TxStep
    /\ UNCHANGED <<recordVars, pivotVars, relationVars, queryVars, walkVars, pageVars,
                   indexVars, migrationVars>>
Stores ==
    /\ RecordStep
    /\ UNCHANGED <<txVars, pivotVars, relationVars, queryVars, walkVars, pageVars,
                   indexVars, migrationVars>>
Relates ==
    /\ PivotStep
    /\ UNCHANGED <<txVars, recordVars, relationVars, queryVars, walkVars, pageVars,
                   indexVars, migrationVars>>
Reads ==
    /\ RelationStep
    /\ UNCHANGED <<txVars, recordVars, pivotVars, queryVars, walkVars, pageVars, indexVars,
                   migrationVars>>
Asks ==
    /\ QueryStep
    /\ UNCHANGED <<txVars, recordVars, pivotVars, relationVars, walkVars, pageVars,
                   indexVars, migrationVars>>
Walks ==
    /\ WalkStep
    /\ UNCHANGED <<txVars, recordVars, pivotVars, relationVars, queryVars, pageVars,
                   indexVars, migrationVars>>
Turns ==
    /\ PageStep
    /\ UNCHANGED <<txVars, recordVars, pivotVars, relationVars, queryVars, walkVars,
                   indexVars, migrationVars>>
Indexes ==
    /\ IndexStep
    /\ UNCHANGED <<txVars, recordVars, pivotVars, relationVars, queryVars, walkVars,
                   pageVars, migrationVars>>
Migrates ==
    /\ MigrationStep
    /\ UNCHANGED <<txVars, recordVars, pivotVars, relationVars, queryVars, walkVars,
                   pageVars, indexVars>>
DatabaseStep ==
    \/ Transacts \/ Stores \/ Relates \/ Reads \/ Asks
    \/ Walks \/ Turns \/ Indexes \/ Migrates
Queries ==
    /\ DatabaseStep
    /\ UNCHANGED <<sessionVars, loginVars, featureVars, lifeVars, containerVars, mediaVars,
                   eventVars, deliveryVars, relayVars, clientVars, pipelineVars, formVars,
                   identityVars, workingVars>>
Serves ==
    /\ SessionStep
    /\ UNCHANGED <<loginVars, featureVars, lifeVars, containerVars, mediaVars, eventVars,
                   deliveryVars, relayVars, clientVars, pipelineVars, formVars,
                   identityVars, workingVars, dbVars>>
LogsIn ==
    /\ LoginStep
    /\ UNCHANGED <<sessionVars, featureVars, lifeVars, containerVars, mediaVars, eventVars,
                   deliveryVars, relayVars, clientVars, pipelineVars, formVars,
                   identityVars, workingVars, dbVars>>
Flags ==
    /\ FeatureStep
    /\ UNCHANGED <<sessionVars, loginVars, lifeVars, containerVars, mediaVars, eventVars,
                   deliveryVars, relayVars, clientVars, pipelineVars, formVars,
                   identityVars, workingVars, dbVars>>
Lives ==
    /\ LifeStep
    /\ UNCHANGED <<sessionVars, loginVars, featureVars, containerVars, mediaVars, eventVars,
                   deliveryVars, relayVars, clientVars, pipelineVars, formVars,
                   identityVars, workingVars, dbVars>>
Injects ==
    /\ ContainerStep
    /\ UNCHANGED <<sessionVars, loginVars, featureVars, lifeVars, mediaVars, eventVars,
                   deliveryVars, relayVars, clientVars, pipelineVars, formVars,
                   identityVars, workingVars, dbVars>>
Attaches ==
    /\ MediaStep
    /\ UNCHANGED <<sessionVars, loginVars, featureVars, lifeVars, containerVars, eventVars,
                   deliveryVars, relayVars, clientVars, pipelineVars, formVars,
                   identityVars, workingVars, dbVars>>
Dispatches ==
    /\ EventStep
    /\ UNCHANGED <<sessionVars, loginVars, featureVars, lifeVars, containerVars, mediaVars,
                   deliveryVars, relayVars, clientVars, pipelineVars, formVars,
                   identityVars, workingVars, dbVars>>
Notifies ==
    /\ DeliveryStep
    /\ UNCHANGED <<sessionVars, loginVars, featureVars, lifeVars, containerVars, mediaVars,
                   eventVars, relayVars, clientVars, pipelineVars, formVars, identityVars,
                   workingVars, dbVars>>
Relays ==
    /\ RelayStep
    /\ UNCHANGED <<sessionVars, loginVars, featureVars, lifeVars, containerVars, mediaVars,
                   eventVars, deliveryVars, clientVars, pipelineVars, formVars,
                   identityVars, workingVars, dbVars>>
Consumes ==
    /\ ClientStep
    /\ UNCHANGED <<sessionVars, loginVars, featureVars, lifeVars, containerVars, mediaVars,
                   eventVars, deliveryVars, relayVars, pipelineVars, formVars, identityVars,
                   workingVars, dbVars>>
Handles ==
    /\ PipelineStep
    /\ UNCHANGED <<sessionVars, loginVars, featureVars, lifeVars, containerVars, mediaVars,
                   eventVars, deliveryVars, relayVars, clientVars, formVars, identityVars,
                   workingVars, dbVars>>
Validates ==
    /\ FormStep
    /\ UNCHANGED <<sessionVars, loginVars, featureVars, lifeVars, containerVars, mediaVars,
                   eventVars, deliveryVars, relayVars, clientVars, pipelineVars,
                   identityVars, workingVars, dbVars>>
Admits ==
    /\ IdentityStep
    /\ UNCHANGED <<sessionVars, loginVars, featureVars, lifeVars, containerVars, mediaVars,
                   eventVars, deliveryVars, relayVars, clientVars, pipelineVars, formVars,
                   workingVars, dbVars>>
Works ==
    /\ WorkingStep
    /\ UNCHANGED <<sessionVars, loginVars, featureVars, lifeVars, containerVars, mediaVars,
                   eventVars, deliveryVars, relayVars, clientVars, pipelineVars, formVars,
                   identityVars, dbVars>>

Next ==
    \/ Queries
    \/ Serves \/ LogsIn \/ Flags \/ Lives
    \/ Injects \/ Attaches \/ Dispatches \/ Notifies \/ Relays \/ Consumes
    \/ Handles \/ Validates \/ Admits \/ Works

Spec == Init /\ [][Next]_vars

----------------------------------------------------------------------------
(* Properties *)

\* What is written or sent is what was asked for, once, whoever else writes: a column of a
\* row (NothingClobbered), the document of a row in the index (SearchFinds), the tables
\* (SchemaRight), the links of a relation that is edited (LinksKept), a notification
\* (DeliveredOnce), the requests of a pool (PoolRight).
DoneAsAsked ==
    /\ NothingClobbered /\ SearchFinds /\ SchemaRight
    /\ LinksKept /\ DeliveredOnce /\ PoolRight

\* What there is is what is read or heard, however it is asked for: the rows a relation
\* relates (RelationsAgree) and a query admits (QueryScoped), those read in pieces, each once,
\* by a walk (WalkedOnce) and by a reader who turns pages back and forth (PagesRight), an
\* event by its listeners (EventsHeard), the frames of a socket in their order (FramesRight).
ReadAsWritten ==
    /\ RelationsAgree /\ QueryScoped /\ WalkedOnce
    /\ PagesRight /\ EventsHeard /\ FramesRight

\* What was kept for a browser, a user or a scope is what the next reader finds, and no
\* other: a session's items and messages (SessionCarried), an override (OverridesStick), a
\* login (LoginsRight) and who acts in it (IdentitiesRight), and the files of a row
\* (NoOrphans).
KeptForNext ==
    SessionCarried /\ OverridesStick /\ LoginsRight /\ IdentitiesRight /\ NoOrphans

\* What the application gives its parts: resources that are up when they are used and down
\* in the end (ResourcesRight), and the objects of the container (MakesRight); and what it
\* answers: a request by what let it through (AnsweredRight), input by the rules that apply
\* to it (FormsRight).
ServicesRight == ResourcesRight /\ MakesRight /\ AnsweredRight /\ FormsRight

\* What is owed is done in the end: work deferred to a commit runs, unless the caller is
\* cancelled or dies (Owed), and a worker that is to return does (ToReturn); where one of the
\* two is explored, nothing is asked of the other.
DoneInTheEnd == (Owed # {} \/ ToReturn) ~> ((Owed = {} \/ Abandoned) /\ stage = "off")
=============================================================================
