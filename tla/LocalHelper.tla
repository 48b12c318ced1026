---------------------------- MODULE LocalHelper -----------------------------
(***************************************************************************)
(* The loopback helper that `av run` starts beside the child: the listener *)
(* of start_loopback_proxy_with_tls and start_unix_proxy, and              *)
(* proxy_local_connection with read_proxy_header and                       *)
(* inject_proxy_authorization, of src/src/main.rs.                         *)
(*                                                                         *)
(* A stream is a sequence of symbols: "nl" stands for CR LF, a line of a   *)
(* header for itself, and anything else is payload.  Reads split a stream  *)
(* anywhere, the blank line that ends a header included.                   *)
(***************************************************************************)
EXTENDS Integers, Sequences, SequencesExt, FiniteSets

CONSTANTS
    LocalConnections,
    ClientStreams,      \* what a child may write, to the end of its stream
    RemoteStreams,      \* what AV may answer
    ReadSize,           \* symbols of one read
    MaxProxyHeader      \* MAX_PROXY_HEADER

ASSUME LocalHelperAssumption == ReadSize \in Nat \ {0} /\ MaxProxyHeader \in Nat

VARIABLES
    listener,   \* [open, sender]: the task, and what its watch channel holds
    local       \* the connections

helperVars == <<listener, local>>

NoConnection ==
    [pc |-> "none", buffer |-> <<>>, early |-> <<>>, answerEarly |-> <<>>,
     client |-> <<>>, remote |-> <<>>, sent |-> <<>>, toRemote |-> <<>>,
     toClient |-> <<>>, seen |-> "open"]

HelperInit ==
    /\ listener = [open |-> TRUE, sender |-> "open"]
    /\ local = [c \in LocalConnections |-> NoConnection]

\* shutdown.send(true), or the sender dropped on the way out of the block.
Stop ==
    /\ listener.sender = "open"
    /\ listener' = [listener EXCEPT !.sender = "stopped"]
    /\ UNCHANGED local

\* The channel says stop, or accept fails; nothing watches the task.
ListenerEnds ==
    /\ listener.open
    /\ listener' = [listener EXCEPT !.open = FALSE]
    /\ UNCHANGED local

\* A clone of the receiver has seen what the listener's own has seen.
CloneSees == "open"

Accept(c) ==
    /\ listener.open /\ local[c].pc = "none"
    /\ \E client \in ClientStreams, remote \in RemoteStreams :
        local' = [local EXCEPT ![c] = [NoConnection EXCEPT
            !.pc = "header", !.client = client, !.sent = client, !.remote = remote,
            !.seen = CloneSees]]
    /\ UNCHANGED listener
-----------------------------------------------------------------------------
(* read_proxy_header, of the child's request and of AV's answer. *)

Ends(bytes) == {i \in 1 .. Len(bytes) - 1 : bytes[i] = "nl" /\ bytes[i + 1] = "nl"}

HasHeader(bytes) == Ends(bytes) # {}

\* The first blank line ends the header.
HeaderEnd(bytes) == 1 + (CHOOSE i \in Ends(bytes) : \A j \in Ends(bytes) : i <= j)

TooLarge(bytes) == Len(bytes) >= MaxProxyHeader

Reads(c, field) ==
    LET s == local[c] stream == s[field] IN
    /\ ~HasHeader(s.buffer) /\ ~TooLarge(s.buffer)
    /\ \E n \in 1 .. ReadSize :
        /\ n <= Len(stream)
        /\ local' = [local EXCEPT ![c] = [s EXCEPT
            !.buffer = @ \o SubSeq(stream, 1, n), ![field] = SubSeq(stream, n + 1, Len(stream))]]
    /\ UNCHANGED listener

HeaderFails(c, field) ==
    LET s == local[c] IN
    /\ ~HasHeader(s.buffer) /\ (TooLarge(s.buffer) \/ s[field] = <<>>)
    /\ local' = [local EXCEPT ![c].pc = "closed"]
    /\ UNCHANGED listener

ReadHeader(c) == local[c].pc = "header" /\ (Reads(c, "client") \/ HeaderFails(c, "client"))

ReadAnswer(c) == local[c].pc = "answer" /\ (Reads(c, "remote") \/ HeaderFails(c, "remote"))
-----------------------------------------------------------------------------
Kept(line) == line \notin {"nl", "authorization"}

\* inject_proxy_authorization, of a header with its blank line: the lines
\* sent, or the empty sequence where it bails.
InjectProxyAuthorization(header) ==
    LET lines == SelectSeq(Tail(header), Kept)
        hosts == Cardinality({i \in DOMAIN lines : lines[i] = "host"})
    IN IF /\ Head(header) = "connect"
          /\ ToSet(lines) \subseteq {"host", "accept", "authorization"}
          /\ hosts = 1
       THEN <<"connect">> \o lines \o <<"session token", "blank">>
       ELSE <<>>

\* Then AV is dialled, its certificate verified and the header written.
Inject(c) ==
    LET s == local[c]
        end == HeaderEnd(s.buffer)
        rewritten == InjectProxyAuthorization(SubSeq(s.buffer, 1, end))
    IN /\ s.pc = "header" /\ HasHeader(s.buffer)
       /\ local' = [local EXCEPT ![c] =
            IF rewritten = <<>> THEN [s EXCEPT !.pc = "closed"]
            ELSE [s EXCEPT !.pc = "answer", !.toRemote = rewritten, !.buffer = <<>>,
                           !.early = SubSeq(s.buffer, end + 1, Len(s.buffer))]]
       /\ UNCHANGED listener

\* Dialling AV, its certificate, or a read or write of either stream fails.
StreamFails(c) ==
    /\ local[c].pc \in {"header", "answer"}
    /\ local' = [local EXCEPT ![c].pc = "closed"]
    /\ UNCHANGED listener

\* Mutation: bytes read beyond the header are dropped.
ForgetsEarly(s) == <<>>

EarlyBytes(s) == s.early

\* The answer goes to the child; after a 200, what either side sent early.
ForwardAnswer(c) ==
    LET s == local[c]
        end == HeaderEnd(s.buffer)
        accepted == Head(s.buffer) = "200"
    IN /\ s.pc = "answer" /\ HasHeader(s.buffer)
       /\ local' = [local EXCEPT ![c] =
            IF accepted
            THEN [s EXCEPT !.pc = "relay", !.toClient = s.buffer,
                           !.toRemote = @ \o EarlyBytes(s), !.buffer = <<>>, !.early = <<>>]
            ELSE [s EXCEPT !.pc = "closed", !.toClient = SubSeq(s.buffer, 1, end)]]
       /\ UNCHANGED listener

\* copy_bidirectional
CopyOut(c) ==
    LET s == local[c] IN
    /\ s.pc = "relay" /\ s.client # <<>>
    /\ local' = [local EXCEPT ![c] = [s EXCEPT
        !.toRemote = Append(@, Head(s.client)), !.client = Tail(s.client)]]
    /\ UNCHANGED listener

CopyIn(c) ==
    LET s == local[c] IN
    /\ s.pc = "relay" /\ s.remote # <<>>
    /\ local' = [local EXCEPT ![c] = [s EXCEPT
        !.toClient = Append(@, Head(s.remote)), !.remote = Tail(s.remote)]]
    /\ UNCHANGED listener

\* Either side closes or fails.
CopyEnds(c) ==
    /\ local[c].pc = "relay"
    /\ local' = [local EXCEPT ![c].pc = "closed"]
    /\ UNCHANGED listener

\* stopped.changed() of the connection's own receiver.
SeeStop(c) ==
    /\ local[c].pc = "relay" /\ local[c].seen # listener.sender
    /\ local' = [local EXCEPT ![c].pc = "closed"]
    /\ UNCHANGED listener
-----------------------------------------------------------------------------
HelperNext ==
    \/ Stop \/ ListenerEnds
    \/ \E c \in LocalConnections :
        \/ Accept(c) \/ ReadHeader(c) \/ Inject(c) \/ StreamFails(c) \/ ReadAnswer(c)
        \/ ForwardAnswer(c) \/ CopyOut(c) \/ CopyIn(c) \/ CopyEnds(c) \/ SeeStop(c)

\* A peer may stay silent and a copy last for ever; a stop that is seen is acted on.
HelperFairness == \A c \in LocalConnections : WF_helperVars(SeeStop(c))

HelperSpec == HelperInit /\ [][HelperNext]_helperVars /\ HelperFairness
-----------------------------------------------------------------------------
(* Bytes pass the helper unchanged: AV receives the rewritten header and    *)
(* then exactly what the child wrote after its own, and the child receives  *)
(* what AV sent, wherever the reads split either stream, early data         *)
(* included.                                                                *)
StreamPreserved ==
    \A c \in LocalConnections : local[c].pc = "relay" =>
        LET s == local[c]
            header == HeaderEnd(s.sent)
            payload == SubSeq(s.sent, header + 1, Len(s.sent))
            forwarded == SubSeq(s.toRemote, Len(InjectProxyAuthorization(
                             SubSeq(s.sent, 1, header))) + 1, Len(s.toRemote))
        IN /\ payload = forwarded \o s.client
           /\ \E remote \in RemoteStreams : remote = s.toClient \o s.remote

(* Whatever authorization the child puts in its CONNECT, AV is sent exactly *)
(* one, the session's, and the request names exactly one host.              *)
AuthorizedOnce ==
    \A c \in LocalConnections : local[c].toRemote # <<>> =>
        LET header == SubSeq(local[c].toRemote, 1,
                             CHOOSE i \in DOMAIN local[c].toRemote :
                                 local[c].toRemote[i] = "blank")
            At(line) == {i \in DOMAIN header : header[i] = line}
        IN /\ At("authorization") = {} /\ Cardinality(At("session token")) = 1
           /\ Cardinality(At("host")) = 1

(* Once the wrapper stops the helper, every relay ends, one accepted in the *)
(* moment of the stop included.                                             *)
RelaysStop ==
    \A c \in LocalConnections :
        local[c].pc = "relay" /\ listener.sender = "stopped" ~> local[c].pc = "closed"

(* The helper is a faithful relay while it runs, and no relay outlives it  *)
(* (start_loopback_proxy_with_tls, proxy_local_connection).                *)
HelperFaithful == [](StreamPreserved /\ AuthorizedOnce) /\ RelaysStop
=============================================================================
