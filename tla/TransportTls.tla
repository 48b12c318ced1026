---------------------------- MODULE TransportTls ----------------------------
(***************************************************************************)
(* The transport certificate of the transparent listener:                  *)
(* ReloadingTransportTls of src/src/transport_tls.rs, called by a task per *)
(* connection (run_transparent_proxy_listener of src/src/server.rs).       *)
(*                                                                         *)
(* Every connection reads the certificate and then the key, installs the   *)
(* pair if it matches, and serves what is installed.  The tasks run on     *)
(* several threads, and the files change under them.  A file is known by   *)
(* the issue of the pair it belongs to.                                    *)
(***************************************************************************)
EXTENDS WireValues, Integers

CONSTANTS
    Acceptors,      \* concurrent connections
    MaxIssue        \* bound on the pairs issued

ASSUME TlsAssumption == MaxIssue \in Nat /\ Malformed \notin Nat

VARIABLES
    issue,                      \* the newest pair there is
    certificateFile, keyFile,   \* issues on disk, or Malformed
    installed,                  \* current
    acceptor                    \* what each connection is doing

tlsVars == <<issue, certificateFile, keyFile, installed, acceptor>>

Closed == [pc |-> "closed"]

\* ReloadingTransportTls::load has read a matching pair.
TlsInit ==
    /\ issue = 1 /\ certificateFile = 1 /\ keyFile = 1
    /\ installed = [certificate |-> 1, key |-> 1]
    /\ acceptor = [a \in Acceptors |-> Closed]

\* Files change while no connection that began alone is under way, or it is
\* no longer undisturbed.
Disturbed ==
    [a \in Acceptors |->
        IF acceptor[a] = Closed THEN Closed ELSE [acceptor[a] EXCEPT !.undisturbed = FALSE]]

ValidPair == certificateFile # Malformed /\ keyFile = certificateFile

IssuePair ==
    /\ issue < MaxIssue
    /\ issue' = issue + 1
    /\ UNCHANGED <<certificateFile, keyFile, installed, acceptor>>

\* Kubernetes replaces both files at once.
RotatePair ==
    /\ certificateFile # issue \/ keyFile # issue
    /\ certificateFile' = issue /\ keyFile' = issue /\ acceptor' = Disturbed
    /\ UNCHANGED <<issue, installed>>

\* Other deployments write the files one by one, in either order, and a file
\* that is being written, or gone, does not parse.
WriteCertificate ==
    /\ certificateFile' \in {issue, Malformed} \ {certificateFile}
    /\ acceptor' = Disturbed
    /\ UNCHANGED <<issue, keyFile, installed>>

WriteKey ==
    /\ keyFile' \in {issue, Malformed} \ {keyFile}
    /\ acceptor' = Disturbed
    /\ UNCHANGED <<issue, certificateFile, installed>>

ReadCertificate(a) ==
    /\ acceptor[a] = Closed
    /\ acceptor' = [acceptor EXCEPT ![a] =
           [pc |-> "reading", certificate |-> certificateFile,
            undisturbed |-> \A other \in Acceptors : acceptor[other] = Closed]]
    /\ UNCHANGED <<issue, certificateFile, keyFile, installed>>

ReadKey(a) ==
    /\ acceptor[a].pc = "reading"
    /\ acceptor' = [acceptor EXCEPT ![a] =
           [pc |-> "read", certificate |-> @.certificate, key |-> keyFile,
            undisturbed |-> @.undisturbed]]
    /\ UNCHANGED <<issue, certificateFile, keyFile, installed>>

\* Mutation: certificate and key are not compared.
ParsesOnly(a) == Malformed \notin {acceptor[a].certificate, acceptor[a].key}

\* load_server_config succeeds: both parse, and with_single_cert compares them.
LoadServerConfig(a) ==
    /\ Malformed \notin {acceptor[a].certificate, acceptor[a].key}
    /\ acceptor[a].certificate = acceptor[a].key

Replacement(a) ==
    IF LoadServerConfig(a)
    THEN [certificate |-> acceptor[a].certificate, key |-> acceptor[a].key]
    ELSE installed

Install(a) ==
    /\ acceptor[a].pc = "read"
    /\ installed' = Replacement(a)
    /\ acceptor' = [acceptor EXCEPT ![a].pc = "installed"]
    /\ UNCHANGED <<issue, certificateFile, keyFile>>

\* acceptor() reads current again and the handshake uses that.
Serve(a) ==
    /\ acceptor[a].pc = "installed"
    /\ acceptor' = [acceptor EXCEPT ![a] =
           [pc |-> "served", serves |-> installed, undisturbed |-> @.undisturbed]]
    /\ UNCHANGED <<issue, certificateFile, keyFile, installed>>

CloseConnection(a) ==
    /\ acceptor[a].pc = "served"
    /\ acceptor' = [acceptor EXCEPT ![a] = Closed]
    /\ UNCHANGED <<issue, certificateFile, keyFile, installed>>

TlsNext ==
    \/ IssuePair \/ RotatePair \/ WriteCertificate \/ WriteKey
    \/ \E a \in Acceptors :
          ReadCertificate(a) \/ ReadKey(a) \/ Install(a) \/ Serve(a) \/ CloseConnection(a)

TlsSpec == TlsInit /\ [][TlsNext]_tlsVars
-----------------------------------------------------------------------------
(* "an incomplete or invalid update retains the last known-good            *)
(* configuration": what a connection serves is always a matching pair,     *)
(* though the two files are read one after the other while they change.    *)
ServesMatchingPair ==
    \A a \in Acceptors : acceptor[a].pc = "served" =>
        acceptor[a].serves.certificate = acceptor[a].serves.key

(* A connection that starts with no other on its way in serves the pair on *)
(* disk, where it is valid and stays so.                                   *)
ReplacementUsed ==
    \A a \in Acceptors :
        acceptor[a].pc = "served" /\ acceptor[a].undisturbed /\ ValidPair =>
            acceptor[a].serves.certificate = certificateFile

(* A connection serves a valid pair, the new one as soon as it is there    *)
(* (ReloadingTransportTls::acceptor).                                      *)
TransportPairSound == ServesMatchingPair /\ ReplacementUsed

(* "A valid replacement is used immediately" by every connection that      *)
(* starts after it.  Not so: a connection that read the old pair may       *)
(* install it after the new one.                                           *)
NeverGoesBack == [][installed'.certificate >= installed.certificate]_tlsVars
=============================================================================
