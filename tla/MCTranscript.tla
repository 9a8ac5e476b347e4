---------------------------- MODULE MCTranscript ----------------------------
EXTENDS Transcript

CONSTANT EagerPages   \* bound: pages whose frames and commands are never kept waiting

\* all turns write one file
MCPaths == {"file"}
MCPathOf == [t \in Turns |-> "file"]

\* nothing else happens while an eager page has a frame to read, or then a command to be handled
EagerPagesFirst ==
    /\ \A p \in EagerPages : inbox[p] # <<>> => \E q \in EagerPages : inbox'[q] = Tail(inbox[q])
    /\ \A p \in EagerPages : inbox[p] = <<>> /\ sent[p] # <<>> => sent'[p] = Tail(sent[p])

\* bound: one disturbance in a behaviour (an interrupt, a broken socket, a download, or a message
\* sent into a turn), a broken socket only around the first turn, downloads by eager pages, and nothing
\* past a hole (see EventDelivery) or past a download, which what follows does not depend on
OneDisturbance ==
    /\ pressed + drops + asked + Cardinality(cut) <= 1
    /\ drops + lastTurn <= 2
    /\ \A p \in Pages \ EagerPages : \A i \in DOMAIN sent[p] : sent[p][i].type # "download"
    /\ gapped = {}
    /\ \A p \in Pages : got[p] = {}

\* a download is on its way to the daemon, or OneDisturbance still lets a page ask for one
MayDownload ==
    \/ pressed + drops + asked + Cardinality(cut) = 0
    \/ \E p \in Pages : \E i \in DOMAIN sent[p] : sent[p][i].type = "download"

\* what the future and the properties depend on: answers to requests gone by do not count, nor do the
\* files when no page can download them any more
Relevant ==
    <<step, step # "idle" /\ writes, step # "idle" /\ interrupted, written,
      IF MayDownload THEN file ELSE [q \in Paths |-> Missing], sessionVars, log, netVars,
      highestSeq, page, gapped, cut, [p \in Pages |-> {d \in got[p] : d.via = "zip"}], bounds,
      {p \in Pages : Waiting # None /\ answered[p] = Waiting},
      {p \in Pages : Waiting # None /\ rewound[p] = Waiting}>>
=============================================================================
