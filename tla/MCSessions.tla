----------------------------- MODULE MCSessions -----------------------------
(* Two sessions next to each other, each to bounds of its own, since one     *)
(* with the routes of the first and the queue of the second is too large:    *)
(* the first replaces a text document and decks again and again, the second  *)
(* lets saves of a workbook and a text document over two paths pile up.      *)
EXTENDS MCDocumentSession

VARIABLES queueDocument, queueId, queueEdited, queueSaved, queueEditor, queueDisk,
          queueJobs, queueWork, queueAsk, queueDrain, queueOpenings, queueClosing,
          queueRoutes, queueAlive, queueConsented,
          part

Queue == INSTANCE DocumentSession
           WITH Paths           <- {P1, P2},
                Kinds           <- {"xlsx", "docx"},
                KindOf          <- XlsxAndDocx,
                Inexpressible   <- {},
                MaxRoutes       <- 1,
                MaxJobs         <- 3,
                documentRef     <- queueDocument,
                documentId      <- queueId,
                editGeneration  <- queueEdited,
                savedGeneration <- queueSaved,
                editor          <- queueEditor,
                disk            <- queueDisk,
                jobs            <- queueJobs,
                work            <- queueWork,
                ask             <- queueAsk,
                drain           <- queueDrain,
                openings        <- queueOpenings,
                closing         <- queueClosing,
                routes          <- queueRoutes,
                alive           <- queueAlive,
                consented       <- queueConsented

queueVars == <<queueDocument, queueId, queueEdited, queueSaved, queueEditor, queueDisk,
               queueJobs, queueWork, queueAsk, queueDrain, queueOpenings, queueClosing,
               queueRoutes, queueAlive, queueConsented>>

SessionsInit == Init /\ Queue!Init /\ part \in {"replace", "queue"}

SessionsNext ==
    \/ part = "replace" /\ Next /\ UNCHANGED <<queueVars, part>>
    \/ part = "queue" /\ Queue!Next /\ UNCHANGED <<vars, part>>

SessionsSpec == SessionsInit /\ [][SessionsNext]_<<vars, queueVars, part>>

\* LiveSavesNeverGoBack of the second session: with three saves queued and two
\* paths, a save serialized in its turn removes no edit an earlier one wrote.
QueuedSavesNeverGoBack == Queue!LiveSavesNeverGoBack

\* RequestedEditsLand of the second session: a save that reports success has
\* written what it was asked to, behind two others and over a rename.
QueuedEditsLand == Queue!RequestedEditsLand
=============================================================================
