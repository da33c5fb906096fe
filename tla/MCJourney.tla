----------------------------- MODULE MCJourney -------------------------------
\* Journey through the nine deployments.  Where frames are broadcast one packet already
\* has some ten thousand interleavings of its copies; a login adds nothing there that
\* a packet could meet, since those deployments send to nobody that an AP adds.
EXTENDS Journey

MCNets == DOMAIN Network

MCMaxRequests == [n \in MCNets |-> IF n \in Addressed THEN 2 ELSE 1]
MCMaxLogins == [n \in MCNets |-> IF n \in Addressed \cup {"topology"} THEN 1 ELSE 0]

\* The networks with configured addresses meet the condition under which OneCopy is
\* proved for any number of requests and logins.
ASSUME AddressedUnicast == \A n \in Nets \cap Addressed : Unicast(n)
=============================================================================
