--------------------------- MODULE RuntimeProofs ----------------------------
(***************************************************************************)
(* Proofs about five parts around the server that share no state:          *)
(* TransportTls, TransparentProxy, RunWrapper, SigningKeys and             *)
(* CredentialReload.                                                       *)
(***************************************************************************)
EXTENDS TransportTls, TransparentProxy, RunWrapper, SigningKeys, CredentialReload,
        TLAPS

\* Counting a message, or not, into the bytes relayed so far gives a number of
\* bytes (TransparentProxy's RelayMessage).
LEMMA MessageCounted ==
    \A total, size \in Nat : \A over : total + (IF over THEN 0 ELSE size) \in Nat
OBVIOUS

-----------------------------------------------------------------------------
(***************************************************************************)
(* TransportTls, for any number of connections and of pairs issued.        *)
(***************************************************************************)

\* What the two files hold, and what a connection is, at each of its steps.
Files == Nat \cup {Malformed}
Pairs == [certificate : Nat, key : Nat]
Reading == [pc : {"reading"}, certificate : Files, undisturbed : BOOLEAN]
Read == [pc : {"read", "installed"}, certificate : Files, key : Files, undisturbed : BOOLEAN]
ServedConnections == [pc : {"served"}, serves : Pairs, undisturbed : BOOLEAN]

Types ==
    /\ issue \in Nat /\ certificateFile \in Files /\ keyFile \in Files /\ installed \in Pairs
    /\ acceptor \in [Acceptors -> {Closed} \cup Reading \cup Read \cup ServedConnections]

Matches(pair) == pair.certificate = pair.key

\* What connection b has read is what the files hold.
HoldsCurrentPair(b) ==
    /\ acceptor[b].pc = "reading" => acceptor[b].certificate = certificateFile
    /\ acceptor[b].pc \in {"read", "installed"} =>
          acceptor[b].certificate = certificateFile /\ acceptor[b].key = keyFile

\* While connection a is undisturbed, whatever is installed is the pair on disk
\* once a, or any other connection, has installed what it read.
Undisturbed(a) ==
    acceptor[a] # Closed /\ acceptor[a].undisturbed =>
        /\ \A b \in Acceptors : HoldsCurrentPair(b)
        /\ ValidPair =>
              /\ acceptor[a].pc = "installed" => installed.certificate = certificateFile
              /\ acceptor[a].pc = "served" => acceptor[a].serves.certificate = certificateFile

TlsInv ==
    /\ Types
    /\ Matches(installed)
    /\ \A a \in Acceptors : acceptor[a].pc = "served" => Matches(acceptor[a].serves)
    /\ \A a \in Acceptors : Undisturbed(a)
-----------------------------------------------------------------------------
\* A change of the files disturbs every connection under way.
LEMMA FilesKeep ==
    ASSUME TlsInv, certificateFile' \in Files, keyFile' \in Files, issue' \in Nat,
           acceptor' = Disturbed, UNCHANGED installed
    PROVE  TlsInv'
<1>1. ASSUME NEW a \in Acceptors
      PROVE  /\ acceptor'[a] \in {Closed} \cup Reading \cup Read \cup ServedConnections
             /\ acceptor'[a] # Closed => ~acceptor'[a].undisturbed
             /\ acceptor'[a].pc = "served" => Matches(acceptor'[a].serves)
  <2>1. CASE acceptor[a] = Closed
    <3>1. acceptor'[a] = Closed
      BY <2>1 DEF Disturbed
    <3> QED
      BY <3>1 DEF Closed
  <2>2. CASE acceptor[a] # Closed
    <3> DEFINE r == [acceptor[a] EXCEPT !.undisturbed = FALSE]
    <3>1. acceptor'[a] = r
      BY <2>2 DEF Disturbed
    <3>2. acceptor[a] \in Reading \/ acceptor[a] \in Read \/ acceptor[a] \in ServedConnections
      BY <2>2 DEF TlsInv, Types
    <3>3. CASE acceptor[a] \in Reading
      <4>1. r \in Reading /\ ~r.undisturbed
        BY Zenon, <3>3 DEF Reading
      <4> QED
        BY <3>1, <4>1 DEF Reading
    <3>4. CASE acceptor[a] \in Read
      <4>1. r \in Read /\ ~r.undisturbed
        BY Zenon, <3>4 DEF Read
      <4> QED
        BY <3>1, <4>1 DEF Read
    <3>5. CASE acceptor[a] \in ServedConnections
      <4>1. r \in ServedConnections /\ ~r.undisturbed /\ r.serves = acceptor[a].serves
        BY Zenon, <3>5 DEF ServedConnections
      <4>2. Matches(acceptor[a].serves)
        BY <3>5 DEF TlsInv, ServedConnections
      <4> QED
        BY <3>1, <4>1, <4>2 DEF ServedConnections
    <3> QED
      BY <3>2, <3>3, <3>4, <3>5
  <2> QED
    BY <2>1, <2>2
<1>2. Types'
  <2>1. acceptor' \in [Acceptors -> {Closed} \cup Reading \cup Read \cup ServedConnections]
    BY <1>1 DEF Disturbed
  <2> QED
    BY <2>1 DEF TlsInv, Types
<1>3. \A a \in Acceptors : Undisturbed(a)'
  BY <1>1 DEF Undisturbed
<1> QED
  BY <1>1, <1>2, <1>3 DEF TlsInv, Matches

\* A connection reads: it has what the files hold, and no other is touched.
LEMMA ReadsKeep ==
    ASSUME TlsInv, NEW a \in Acceptors, ReadCertificate(a) \/ ReadKey(a)
    PROVE  TlsInv'
<1>1. UNCHANGED <<issue, certificateFile, keyFile, installed>>
  BY DEF ReadCertificate, ReadKey
<1>2. \A b \in Acceptors \ {a} : acceptor'[b] = acceptor[b]
  BY DEF ReadCertificate, ReadKey, TlsInv, Types
<1>3. /\ acceptor'[a] \in Reading \cup Read
      /\ acceptor'[a].pc = "reading" => acceptor'[a].certificate = certificateFile
      /\ acceptor'[a].pc = "reading" /\ acceptor'[a].undisturbed =>
            \A b \in Acceptors : acceptor[b] = Closed
      /\ acceptor'[a].pc \in {"reading", "read"}
      /\ acceptor'[a].pc = "read" =>
            /\ acceptor'[a].key = keyFile /\ acceptor[a].pc = "reading"
            /\ acceptor'[a].certificate = acceptor[a].certificate
            /\ acceptor'[a].undisturbed = acceptor[a].undisturbed
  <2>1. CASE ReadCertificate(a)
    <3>1. acceptor'[a] = [pc |-> "reading", certificate |-> certificateFile,
                          undisturbed |-> \A b \in Acceptors : acceptor[b] = Closed]
      BY <2>1 DEF ReadCertificate, TlsInv, Types
    <3>2. certificateFile \in Files
      BY DEF TlsInv, Types
    <3> QED
      BY <3>1, <3>2 DEF Reading
  <2>2. CASE ReadKey(a)
    <3>1. acceptor[a].pc = "reading" /\ acceptor[a] \in Reading
      BY <2>2 DEF ReadKey, TlsInv, Types, Closed, Read, ServedConnections
    <3>2. acceptor'[a] = [pc |-> "read", certificate |-> acceptor[a].certificate,
                          key |-> keyFile, undisturbed |-> acceptor[a].undisturbed]
      BY <2>2 DEF ReadKey, TlsInv, Types
    <3>3. keyFile \in Files
      BY DEF TlsInv, Types
    <3> QED
      BY <3>1, <3>2, <3>3 DEF Reading, Read
  <2> QED
    BY <2>1, <2>2
<1>4. Types'
  BY <1>1, <1>2, <1>3 DEF TlsInv, Types, ReadCertificate, ReadKey
<1>5. ASSUME NEW c \in Acceptors PROVE Undisturbed(c)'
  <2> SUFFICES ASSUME acceptor'[c] # Closed, acceptor'[c].undisturbed
               PROVE  /\ \A b \in Acceptors : HoldsCurrentPair(b)'
                      /\ ValidPair' =>
                            /\ acceptor'[c].pc = "installed" =>
                                  installed'.certificate = certificateFile'
                            /\ acceptor'[c].pc = "served" =>
                                  acceptor'[c].serves.certificate = certificateFile'
    BY DEF Undisturbed
  <2>1. CASE c # a
    <3>1. acceptor'[c] = acceptor[c] /\ Undisturbed(c)
      BY <1>2, <2>1 DEF TlsInv
    <3>2. \A b \in Acceptors : HoldsCurrentPair(b)
      BY <3>1 DEF Undisturbed
    <3>3. ASSUME NEW b \in Acceptors PROVE HoldsCurrentPair(b)'
      <4>1. CASE b # a
        BY <1>1, <1>2, <3>2, <4>1 DEF HoldsCurrentPair
      <4>2. CASE b = a
        BY <1>1, <1>3, <3>2, <4>2 DEF HoldsCurrentPair
      <4> QED
        BY <4>1, <4>2
    <3> QED
      BY <1>1, <3>1, <3>3 DEF Undisturbed, ValidPair
  <2>2. CASE c = a /\ acceptor'[a].pc = "reading"
    <3>1. \A b \in Acceptors : acceptor[b] = Closed
      BY <1>3, <2>2
    <3>2. ASSUME NEW b \in Acceptors PROVE HoldsCurrentPair(b)'
      <4>1. CASE b # a
        BY <1>2, <3>1, <4>1 DEF HoldsCurrentPair, Closed
      <4>2. CASE b = a
        BY <1>1, <1>3, <2>2, <4>2 DEF HoldsCurrentPair
      <4> QED
        BY <4>1, <4>2
    <3> QED
      BY <2>2, <3>2
  <2>3. CASE c = a /\ acceptor'[a].pc = "read"
    <3>1. /\ acceptor[a].pc = "reading" /\ acceptor[a].undisturbed /\ Undisturbed(a)
          /\ acceptor[a] # Closed
      BY <1>3, <2>3 DEF TlsInv, Closed
    <3>2. \A b \in Acceptors : HoldsCurrentPair(b)
      BY <3>1 DEF Undisturbed
    <3>3. ASSUME NEW b \in Acceptors PROVE HoldsCurrentPair(b)'
      <4>1. CASE b # a
        BY <1>1, <1>2, <3>2, <4>1 DEF HoldsCurrentPair
      <4>2. CASE b = a
        BY <1>1, <1>3, <3>2, <4>2 DEF HoldsCurrentPair
      <4> QED
        BY <4>1, <4>2
    <3> QED
      BY <2>3, <3>3
  <2> QED
    BY <1>3, <2>1, <2>2, <2>3
<1>6. \A c \in Acceptors : acceptor'[c].pc = "served" => Matches(acceptor'[c].serves)
  BY <1>2, <1>3 DEF TlsInv
<1> QED
  BY <1>1, <1>4, <1>5, <1>6 DEF TlsInv, Matches

\* A connection installs what it read if the two match: never a mixed pair, and
\* the pair on disk if the files have not changed since any connection read them.
LEMMA InstallKeeps ==
    ASSUME TlsInv, NEW a \in Acceptors, Install(a)
    PROVE  TlsInv'
<1>1. UNCHANGED <<issue, certificateFile, keyFile>> /\ installed' = Replacement(a)
  BY DEF Install
<1>2. \A b \in Acceptors \ {a} : acceptor'[b] = acceptor[b]
  BY DEF Install, TlsInv, Types
<1>3. acceptor[a].pc = "read" /\ acceptor[a] \in Read
  BY DEF Install, TlsInv, Types, Closed, Reading, ServedConnections
<1>4. /\ acceptor'[a] \in Read /\ acceptor'[a].pc = "installed"
      /\ acceptor'[a].certificate = acceptor[a].certificate
      /\ acceptor'[a].key = acceptor[a].key
      /\ acceptor'[a].undisturbed = acceptor[a].undisturbed
  BY <1>3 DEF Install, TlsInv, Types, Read
<1>5. installed' \in Pairs /\ Matches(installed')
  BY <1>1, <1>3 DEF Replacement, LoadServerConfig, TlsInv, Types, Read, Files, Pairs, Matches
<1>6. Types'
  BY <1>1, <1>4, <1>5 DEF TlsInv, Types, Install
<1>7. ASSUME NEW c \in Acceptors PROVE Undisturbed(c)'
  <2> SUFFICES ASSUME acceptor'[c] # Closed, acceptor'[c].undisturbed
               PROVE  /\ \A b \in Acceptors : HoldsCurrentPair(b)'
                      /\ ValidPair' =>
                            /\ acceptor'[c].pc = "installed" =>
                                  installed'.certificate = certificateFile'
                            /\ acceptor'[c].pc = "served" =>
                                  acceptor'[c].serves.certificate = certificateFile'
    BY DEF Undisturbed
  <2>1. acceptor[c] # Closed /\ acceptor[c].undisturbed /\ Undisturbed(c)
    BY <1>2, <1>3, <1>4 DEF TlsInv, Closed
  <2>2. \A b \in Acceptors : HoldsCurrentPair(b)
    BY <2>1 DEF Undisturbed
  <2>3. ASSUME NEW b \in Acceptors PROVE HoldsCurrentPair(b)'
    <3>1. CASE b # a
      BY <1>1, <1>2, <2>2, <3>1 DEF HoldsCurrentPair
    <3>2. CASE b = a
      BY <1>1, <1>3, <1>4, <2>2, <3>2 DEF HoldsCurrentPair
    <3> QED
      BY <3>1, <3>2
  <2>4. ASSUME ValidPair PROVE installed'.certificate = certificateFile
    <3>1. acceptor[a].certificate = certificateFile /\ acceptor[a].key = keyFile
      BY <1>3, <2>2 DEF HoldsCurrentPair
    <3> QED
      BY <1>1, <2>4, <3>1 DEF ValidPair, Replacement, LoadServerConfig
  <2>5. ASSUME ValidPair, acceptor'[c].pc = "served"
        PROVE  acceptor'[c].serves.certificate = certificateFile
    BY <1>2, <1>4, <2>1, <2>5 DEF Undisturbed
  <2> QED
    BY <1>1, <2>3, <2>4, <2>5 DEF ValidPair
<1>8. \A c \in Acceptors : acceptor'[c].pc = "served" => Matches(acceptor'[c].serves)
  BY <1>2, <1>4 DEF TlsInv
<1> QED
  BY <1>5, <1>6, <1>7, <1>8 DEF TlsInv, Matches

\* A connection serves what is installed, and ends.
LEMMA ServeKeeps ==
    ASSUME TlsInv, NEW a \in Acceptors, Serve(a) \/ CloseConnection(a)
    PROVE  TlsInv'
<1>1. UNCHANGED <<issue, certificateFile, keyFile, installed>>
  BY DEF Serve, CloseConnection
<1>2. \A b \in Acceptors \ {a} : acceptor'[b] = acceptor[b]
  BY DEF Serve, CloseConnection, TlsInv, Types
<1>3. \/ acceptor'[a] = Closed
      \/ /\ acceptor'[a] \in ServedConnections /\ acceptor'[a].serves = installed
         /\ acceptor[a] # Closed /\ acceptor[a].pc = "installed"
         /\ acceptor'[a].undisturbed = acceptor[a].undisturbed
  <2>1. CASE Serve(a)
    <3>1. acceptor[a].pc = "installed" /\ acceptor[a] \in Read
      BY <2>1 DEF Serve, TlsInv, Types, Closed, Reading, ServedConnections
    <3>2. acceptor'[a] = [pc |-> "served", serves |-> installed,
                          undisturbed |-> acceptor[a].undisturbed]
      BY <2>1 DEF Serve, TlsInv, Types
    <3> QED
      BY <3>1, <3>2 DEF TlsInv, Types, Read, ServedConnections, Closed
  <2>2. CASE CloseConnection(a)
    BY <2>2 DEF CloseConnection, TlsInv, Types
  <2> QED
    BY <2>1, <2>2
<1>4. acceptor'[a].pc \in {"closed", "served"}
  BY <1>3 DEF Closed, ServedConnections
<1>5. Types'
  BY <1>1, <1>3 DEF TlsInv, Types, Serve, CloseConnection
<1>6. ASSUME NEW c \in Acceptors PROVE Undisturbed(c)'
  <2> SUFFICES ASSUME acceptor'[c] # Closed, acceptor'[c].undisturbed
               PROVE  /\ \A b \in Acceptors : HoldsCurrentPair(b)'
                      /\ ValidPair' =>
                            /\ acceptor'[c].pc = "installed" =>
                                  installed'.certificate = certificateFile'
                            /\ acceptor'[c].pc = "served" =>
                                  acceptor'[c].serves.certificate = certificateFile'
    BY DEF Undisturbed
  <2>1. acceptor[c] # Closed /\ acceptor[c].undisturbed /\ Undisturbed(c)
    BY <1>2, <1>3 DEF TlsInv
  <2>2. ASSUME NEW b \in Acceptors PROVE HoldsCurrentPair(b)'
    BY <1>1, <1>2, <1>4, <2>1 DEF Undisturbed, HoldsCurrentPair
  <2> QED
    BY <1>1, <1>2, <1>3, <1>4, <2>1, <2>2 DEF Undisturbed, ValidPair
<1>7. \A c \in Acceptors : acceptor'[c].pc = "served" => Matches(acceptor'[c].serves)
  BY <1>2, <1>3 DEF TlsInv, Closed
<1> QED
  BY <1>1, <1>5, <1>6, <1>7 DEF TlsInv, Matches
-----------------------------------------------------------------------------
(* Every connection serves a certificate with its own key, and one that    *)
(* starts alone serves the pair on disk where it is valid and stays so:    *)
(* ReloadingTransportTls::acceptor, for any number of connections.         *)
THEOREM ServedPairsSound == TlsSpec => []TransportPairSound
<1>1. TlsInit => TlsInv
  BY DEF TlsInit, TlsInv, Types, Matches, Undisturbed, Files, Pairs, Closed
<1>2. TlsInv /\ [TlsNext]_tlsVars => TlsInv'
  <2> SUFFICES ASSUME TlsInv, [TlsNext]_tlsVars PROVE TlsInv'
    OBVIOUS
  <2>1. CASE IssuePair
    BY <2>1 DEF IssuePair, TlsInv, Types, Matches, Undisturbed, HoldsCurrentPair, ValidPair
  <2>2. CASE RotatePair
    BY <2>2, FilesKeep DEF RotatePair, TlsInv, Types, Files
  <2>3. CASE WriteCertificate
    BY <2>3, FilesKeep DEF WriteCertificate, TlsInv, Types, Files
  <2>4. CASE WriteKey
    BY <2>4, FilesKeep DEF WriteKey, TlsInv, Types, Files
  <2>5. ASSUME NEW a \in Acceptors, ReadCertificate(a) \/ ReadKey(a) PROVE TlsInv'
    BY <2>5, ReadsKeep
  <2>6. ASSUME NEW a \in Acceptors, Install(a) PROVE TlsInv'
    BY <2>6, InstallKeeps
  <2>7. ASSUME NEW a \in Acceptors, Serve(a) \/ CloseConnection(a) PROVE TlsInv'
    BY <2>7, ServeKeeps
  <2>8. CASE UNCHANGED tlsVars
    BY <2>8 DEF tlsVars, TlsInv, Types, Matches, Undisturbed, HoldsCurrentPair,
       ValidPair
  <2> QED
    BY <2>1, <2>2, <2>3, <2>4, <2>5, <2>6, <2>7, <2>8 DEF TlsNext
<1>3. TlsInv => TransportPairSound
  BY DEF TlsInv, TransportPairSound, ServesMatchingPair, ReplacementUsed, Matches,
         Undisturbed, Closed
<1> QED
  BY <1>1, <1>2, <1>3, PTL DEF TlsSpec

-----------------------------------------------------------------------------
(***************************************************************************)
(* TransparentProxy, for any connections and sizes of messages.            *)
(***************************************************************************)

\* Where a handler has read the session and not yet the grant.
GrantPcs == {"connect grant", "request grant", "relay grant", "named grant"}

Delivering == Relaying \cup {"tunnel", "answered", "proxy upstream", "named answered"}

ConnPcs ==
    Admitted \cup Delivering \cup GrantPcs \cup
    {"closed", "refused", "tls", "connect session", "request session", "relay over"}

Conns == [pc : ConnPcs, missing : SUBSET Parts, audited : BOOLEAN,
          inside : {"nothing", "route", "tunnel", "proxy", "secrets"}, total : Nat,
          closes : BOOLEAN, renews : BOOLEAN, overdue : BOOLEAN]

\* What is missing is what access lacks; a part that was read is not missing.
Fits(r) ==
    /\ r \in Conns /\ r.missing \cap access = {}
    /\ r.pc \in GrantPcs => r.missing \subseteq {"grant"}
    /\ r.pc \in Admitted => r.missing = {}
    /\ r.pc \in Delivering => r.audited

ProxyInv ==
    /\ access \subseteq Parts
    /\ conn \in [Connections -> Conns]
    /\ \A c \in Connections : Fits(conn[c])
-----------------------------------------------------------------------------
\* One connection changes into a record that fits.
LEMMA ConnectionKeeps ==
    ASSUME ProxyInv, NEW c \in Connections, NEW r, Fits(r),
           conn' = [conn EXCEPT ![c] = r], access' = access
    PROVE  ProxyInv'
<1>1. r \in Conns /\ conn' \in [Connections -> Conns]
  BY DEF ProxyInv, Fits
<1>2. \A d \in Connections : Fits(conn'[d])
  BY DEF ProxyInv
<1>3. \A d \in Connections : Fits(conn[d])'
  BY <1>2 DEF Fits
<1> QED
  BY <1>1, <1>3 DEF ProxyInv

\* A connection goes on to a place that its record allows.
LEMMA GotoKeeps ==
    ASSUME ProxyInv, NEW c \in Connections, NEW pc \in ConnPcs,
           Goto(c, pc), UNCHANGED access,
           pc \in GrantPcs => conn[c].missing \subseteq {"grant"},
           pc \in Admitted => conn[c].missing = {},
           pc \in Delivering => conn[c].audited
    PROVE  ProxyInv'
<1> DEFINE r == [conn[c] EXCEPT !.pc = pc]
<1>1. conn[c] \in Conns /\ Fits(conn[c])
  BY DEF ProxyInv
<1>2. r \in Conns /\ r.pc = pc /\ r.missing = conn[c].missing /\ r.audited = conn[c].audited
  BY <1>1 DEF Conns
<1>3. Fits(r)
  BY <1>1, <1>2 DEF Fits
<1>4. conn' = [conn EXCEPT ![c] = r]
  BY DEF Goto, ProxyInv
<1> QED
  BY Zenon, <1>3, <1>4, ConnectionKeeps

\* The audit event decides between two places, the first of which needs it.
LEMMA AuditKeeps ==
    ASSUME ProxyInv, NEW c \in Connections, NEW recorded \in BOOLEAN,
           NEW to \in ConnPcs \ GrantPcs, NEW refused \in {"refused", "tls"},
           AuditThen(c, recorded, to, refused), UNCHANGED access,
           conn[c].pc \in Admitted
    PROVE  ProxyInv'
<1> DEFINE r == [conn[c] EXCEPT !.audited = recorded,
                                !.pc = IF recorded THEN to ELSE refused]
<1>1. conn[c] \in Conns /\ Fits(conn[c])
  BY DEF ProxyInv
<1>2. refused \in ConnPcs /\ refused \notin Admitted \cup Delivering \cup GrantPcs
  BY DEF ConnPcs, Admitted, Delivering, GrantPcs, Relaying
<1>3. /\ r \in Conns /\ r.pc = (IF recorded THEN to ELSE refused)
      /\ r.missing = conn[c].missing /\ r.audited = recorded
  BY Zenon, <1>1, <1>2 DEF Conns
<1>4. Fits(r)
  BY <1>1, <1>2, <1>3 DEF Fits
<1>5. conn' = [conn EXCEPT ![c] = r]
  BY DEF AuditThen
<1> QED
  BY Zenon, <1>4, <1>5, ConnectionKeeps

\* A connection that is closed or has just begun a check.
LEMMA BeginningFits ==
    ASSUME ProxyInv, NEW missing \in SUBSET Parts, missing \cap access = {},
           NEW pc \in {"closed", "connect session", "request session", "named grant"},
           pc = "named grant" => missing \subseteq {"grant"},
           NEW inside \in {"nothing", "route", "tunnel", "proxy", "secrets"}
    PROVE  Fits([At(pc, missing, FALSE) EXCEPT !.inside = inside])
<1>1. /\ pc \in ConnPcs /\ pc \notin Admitted /\ pc \notin Delivering
      /\ pc \in GrantPcs => pc = "named grant"
  BY DEF ConnPcs, Admitted, Delivering, GrantPcs, Relaying
<1> DEFINE r == [At(pc, missing, FALSE) EXCEPT !.inside = inside]
<1>2. r \in Conns /\ r.pc = pc /\ r.missing = missing
  BY <1>1 DEF At, Conns
<1> QED
  BY <1>1, <1>2 DEF Fits

\* A closed connection fits.
LEMMA ClosedFits == ProxyInv => Fits(ClosedConnection)
<1> SUFFICES ASSUME ProxyInv PROVE Fits(ClosedConnection)
  OBVIOUS
<1>1. "closed" \in ConnPcs /\ "closed" \notin Admitted \cup Delivering \cup GrantPcs
  BY DEF ConnPcs, Admitted, Delivering, GrantPcs, Relaying
<1>2. ClosedConnection \in Conns /\ ClosedConnection.pc = "closed" /\ ClosedConnection.missing = {}
  BY <1>1 DEF ClosedConnection, At, Conns
<1> QED
  BY <1>1, <1>2 DEF Fits
-----------------------------------------------------------------------------
\* Access changes: what goes was not missing, what comes back no longer is.
LEMMA AccessKeeps ==
    ASSUME ProxyInv, EndSession \/ WithdrawGrant \/ Regrant
    PROVE  ProxyInv'
<1>1. CASE EndSession \/ WithdrawGrant
  <2>1. access' \subseteq access /\ conn' = conn
    BY <1>1 DEF EndSession, WithdrawGrant
  <2>2. ASSUME NEW c \in Connections PROVE Fits(conn[c])'
    BY <2>1 DEF ProxyInv, Fits
  <2> QED
    BY <2>1, <2>2 DEF ProxyInv
<1>2. CASE Regrant
  <2>1. /\ access' = access \cup {"grant"} /\ access' \subseteq Parts
        /\ conn' = [c \in Connections |-> [conn[c] EXCEPT !.missing = conn[c].missing \ {"grant"}]]
    BY <1>2 DEF Regrant, ProxyInv, Parts
  <2>2. ASSUME NEW c \in Connections PROVE conn'[c] \in Conns /\ Fits(conn[c])'
    <3> DEFINE r == [conn[c] EXCEPT !.missing = conn[c].missing \ {"grant"}]
    <3>1. conn[c] \in Conns /\ Fits(conn[c])
      BY DEF ProxyInv
    <3>2. /\ r \in Conns /\ r.pc = conn[c].pc /\ r.audited = conn[c].audited
          /\ r.missing = conn[c].missing \ {"grant"}
      BY <3>1 DEF Conns
    <3>3. conn'[c] = r
      BY <2>1
    <3> HIDE DEF r
    <3> QED
      BY Zenon, <2>1, <3>1, <3>2, <3>3 DEF Fits
  <2>3. conn' \in [Connections -> Conns]
    BY <2>1, <2>2
  <2> QED
    BY <2>1, <2>2, <2>3 DEF ProxyInv
<1> QED
  BY <1>1, <1>2

\* Reading the session: it is not missing if it is there.
LEMMA ReadSessionKeeps ==
    ASSUME ProxyInv, NEW c \in Connections, NEW from, NEW to \in GrantPcs,
           NEW refused \in {"refused", "tls", "relay over"},
           ReadSession(c, from, to, refused),
           to \in Delivering => conn[c].audited
    PROVE  ProxyInv'
<1>0. /\ to \in ConnPcs /\ to \notin Admitted
      /\ refused \in ConnPcs /\ refused \notin Admitted \cup Delivering \cup GrantPcs
  BY DEF ConnPcs, Admitted, Delivering, GrantPcs, Relaying
<1>1. CASE SeesSession
  <2>1. Goto(c, to) /\ access' = access
    BY <1>1 DEF ReadSession
  <2>2. conn[c].missing \subseteq {"grant"}
    <3>1. conn[c].missing \subseteq Parts /\ conn[c].missing \cap access = {}
      BY DEF ProxyInv, Fits, Conns
    <3> QED
      BY <1>1, <3>1 DEF SeesSession, Parts
  <2> QED
    BY <1>0, <2>1, <2>2, GotoKeeps
<1>2. CASE ~SeesSession
  <2>1. Goto(c, refused) /\ access' = access
    BY <1>2 DEF ReadSession
  <2> QED
    BY <1>0, <2>1, GotoKeeps
<1> QED
  BY <1>1, <1>2

\* Reading the grant after it: then nothing is missing.
LEMMA ReadGrantKeeps ==
    ASSUME ProxyInv, NEW c \in Connections, NEW from \in GrantPcs,
           NEW to \in ConnPcs \ GrantPcs,
           NEW refused \in {"refused", "tls", "relay over"},
           ReadGrant(c, from, to, refused),
           to \in Delivering => conn[c].audited
    PROVE  ProxyInv'
<1>0. refused \in ConnPcs /\ refused \notin Admitted \cup Delivering \cup GrantPcs
  BY DEF ConnPcs, Admitted, Delivering, GrantPcs, Relaying
<1>1. CASE SeesGrant
  <2>1. Goto(c, to) /\ access' = access
    BY <1>1 DEF ReadGrant
  <2>2. conn[c].missing \subseteq {"grant"} /\ conn[c].missing \cap access = {}
    BY DEF ReadGrant, ProxyInv, Fits
  <2>3. conn[c].missing = {}
    BY <1>1, <2>2 DEF SeesGrant
  <2> QED
    BY <2>1, <2>3, GotoKeeps
<1>2. CASE ~SeesGrant
  <2>1. Goto(c, refused) /\ access' = access
    BY <1>2 DEF ReadGrant
  <2> QED
    BY <1>0, <2>1, GotoKeeps
<1> QED
  BY <1>1, <1>2

\* A refusal, or the end of a relay, needs nothing.
LEMMA RefusalKeeps ==
    ASSUME ProxyInv, NEW c \in Connections, NEW refused \in {"refused", "tls", "relay over"},
           Goto(c, refused), UNCHANGED access
    PROVE  ProxyInv'
<1>1. refused \in ConnPcs /\ refused \notin Admitted \cup Delivering \cup GrantPcs
  BY DEF ConnPcs, Admitted, Delivering, GrantPcs, Relaying
<1> QED
  BY <1>1, GotoKeeps

\* CONNECT, and the tunnel it opens.
LEMMA ConnectKeeps ==
    ASSUME ProxyInv, NEW c \in Connections,
           \/ \E d \in {"route", "tunnel"} : ReceiveConnect(c, d)
           \/ ConnectSession(c) \/ ConnectGrant(c) \/ DialTunnel(c) \/ ConnectRefused(c)
           \/ \E b \in BOOLEAN : ConnectAudit(c, b)
    PROVE  ProxyInv'
<1> USE DEF ConnPcs, Admitted, Delivering, GrantPcs, Relaying
<1>1. ASSUME NEW d \in {"route", "tunnel"}, ReceiveConnect(c, d) PROVE ProxyInv'
  <2> DEFINE r == [At("connect session", Parts \ access, FALSE) EXCEPT !.inside = d]
  <2>1. Fits(r)
    BY Zenon, BeginningFits
  <2>2. conn' = [conn EXCEPT ![c] = r] /\ access' = access
    BY <1>1 DEF ReceiveConnect
  <2> QED
    BY <2>1, <2>2, ConnectionKeeps
<1>2. CASE ConnectSession(c)
  BY <1>2, ReadSessionKeeps DEF ConnectSession
<1>3. CASE ConnectGrant(c)
  BY <1>3, ReadGrantKeeps DEF ConnectGrant
<1>4. CASE DialTunnel(c)
  <2>1. conn[c].missing = {}
    BY <1>4 DEF DialTunnel, ProxyInv, Fits
  <2> QED
    BY <1>4, <2>1, GotoKeeps DEF DialTunnel
<1>5. CASE ConnectRefused(c)
  BY <1>5, RefusalKeeps DEF ConnectRefused, Refuse
<1>6. ASSUME NEW b \in BOOLEAN, ConnectAudit(c, b) PROVE ProxyInv'
  BY <1>6, AuditKeeps DEF ConnectAudit
<1> QED
  BY <1>1, <1>2, <1>3, <1>4, <1>5, <1>6

\* Requests inside a tunnel.
LEMMA RequestKeeps ==
    ASSUME ProxyInv, NEW c \in Connections,
           \/ ReceiveRequest(c) \/ RequestSession(c) \/ RequestGrant(c) \/ RequestRefused(c)
           \/ ForwardRequest(c) \/ UpstreamFails(c) \/ Answer200(c)
           \/ \E b \in BOOLEAN : UpstreamAnswers(c, b) \/ RequestAudit(c, b) \/ UpgradeAudit(c, b)
    PROVE  ProxyInv'
<1> USE DEF ConnPcs, Admitted, Delivering, GrantPcs, Relaying
<1>1. CASE ReceiveRequest(c)
  <2> DEFINE r == [At("request session", Parts \ access, FALSE) EXCEPT !.inside = "route"]
  <2>1. Fits(r)
    BY Zenon, BeginningFits
  <2>2. conn' = [conn EXCEPT ![c] = r] /\ access' = access
    BY <1>1 DEF ReceiveRequest
  <2> QED
    BY <2>1, <2>2, ConnectionKeeps
<1>2. CASE RequestSession(c)
  BY <1>2, ReadSessionKeeps DEF RequestSession
<1>3. CASE RequestGrant(c)
  BY <1>3, ReadGrantKeeps DEF RequestGrant
<1>4. CASE RequestRefused(c) \/ UpstreamFails(c) \/ Answer200(c)
  BY <1>4, RefusalKeeps DEF RequestRefused, UpstreamFails, Answer200, Refuse
<1>5. CASE ForwardRequest(c)
  <2>1. conn[c].missing = {}
    BY <1>5 DEF ForwardRequest, ProxyInv, Fits
  <2> QED
    BY <1>5, <2>1, GotoKeeps DEF ForwardRequest
<1>6. ASSUME NEW b \in BOOLEAN, UpstreamAnswers(c, b) PROVE ProxyInv'
  <2>1. conn[c].missing = {}
    BY <1>6 DEF UpstreamAnswers, ProxyInv, Fits
  <2> QED
    BY <1>6, <2>1, GotoKeeps DEF UpstreamAnswers
<1>7. ASSUME NEW b \in BOOLEAN, RequestAudit(c, b) PROVE ProxyInv'
  BY <1>7, AuditKeeps DEF RequestAudit
<1>8. ASSUME NEW b \in BOOLEAN, UpgradeAudit(c, b) PROVE ProxyInv'
  BY <1>8, AuditKeeps DEF UpgradeAudit
<1> QED
  BY <1>1, <1>2, <1>3, <1>4, <1>5, <1>6, <1>7, <1>8

\* The relay: its event was recorded when it began, and stays.
LEMMA RelayKeeps ==
    ASSUME ProxyInv, NEW c \in Connections,
           \/ DeadlinePasses(c) \/ RelayDeadline(c) \/ RelaySession(c) \/ RelayGrant(c)
           \/ RelayStoreFails(c) \/ PeerGone(c)
           \/ \E b \in BOOLEAN :
                 \/ RelayCheck(c, b) \/ LeaseRenewed(c, b) \/ RelaySent(c, b)
                 \/ \E size \in MessageSizes : RelayMessage(c, size, b)
    PROVE  ProxyInv'
<1> USE DEF ConnPcs, Admitted, Delivering, GrantPcs, Relaying
<1>0. conn[c] \in Conns /\ Fits(conn[c])
  BY DEF ProxyInv
<1>1. CASE DeadlinePasses(c)
  <2> DEFINE r == [conn[c] EXCEPT !.overdue = TRUE]
  <2>1. /\ r \in Conns /\ r.pc = conn[c].pc /\ r.missing = conn[c].missing
        /\ r.audited = conn[c].audited
    BY <1>0 DEF Conns
  <2>2. Fits(r)
    BY <1>0, <2>1 DEF Fits
  <2>3. conn' = [conn EXCEPT ![c] = r] /\ access' = access
    BY <1>1 DEF DeadlinePasses
  <2> QED
    BY Zenon, <2>2, <2>3, ConnectionKeeps
<1>2. CASE RelayDeadline(c) \/ RelayStoreFails(c) \/ PeerGone(c)
  BY <1>2, RefusalKeeps DEF RelayDeadline, RelayStoreFails, PeerGone, Refuse
<1>3. CASE RelaySession(c)
  <2>1. conn[c].audited
    BY <1>0, <1>3 DEF RelaySession, ReadSession, Fits
  <2> QED
    BY <1>3, <2>1, ReadSessionKeeps DEF RelaySession
<1>4. CASE RelayGrant(c)
  <2>1. conn[c].audited
    BY <1>0, <1>4 DEF RelayGrant, ReadGrant, Fits
  <2> QED
    BY <1>4, <2>1, ReadGrantKeeps DEF RelayGrant
<1>5. ASSUME NEW b \in BOOLEAN, RelayCheck(c, b) PROVE ProxyInv'
  <2> DEFINE r == [conn[c] EXCEPT !.pc = "relay session", !.missing = Parts \ access,
                                  !.renews = b]
  <2>1. /\ r \in Conns /\ r.pc = "relay session" /\ r.missing = Parts \ access
        /\ r.audited = conn[c].audited
    BY <1>0 DEF Conns
  <2>2. conn[c].audited
    BY Zenon, <1>0, <1>5 DEF RelayCheck, Fits
  <2>3. Fits(r)
    BY <2>1, <2>2 DEF Fits
  <2>4. conn' = [conn EXCEPT ![c] = r] /\ access' = access
    BY Zenon, <1>5 DEF RelayCheck
  <2> QED
    BY Zenon, <2>3, <2>4, ConnectionKeeps
<1>6. ASSUME NEW b \in BOOLEAN, LeaseRenewed(c, b) \/ RelaySent(c, b) PROVE ProxyInv'
  <2>1. conn[c].missing = {} /\ conn[c].audited
    BY <1>0, <1>6 DEF LeaseRenewed, RelaySent, Fits
  <2> QED
    BY <1>6, <2>1, GotoKeeps DEF LeaseRenewed, RelaySent
<1>7. ASSUME NEW b \in BOOLEAN, NEW size \in MessageSizes, RelayMessage(c, size, b)
      PROVE  ProxyInv'
  <2> DEFINE over == ExceedsTotal(c, size)
             r == [conn[c] EXCEPT !.pc = IF over THEN "relay over" ELSE "relay send",
                                  !.total = conn[c].total + IF over THEN 0 ELSE size,
                                  !.closes = b]
  <2>0. conn[c].total + (IF over THEN 0 ELSE size) \in Nat
    <3>1. conn[c].total \in Nat
      BY <1>0 DEF Conns
    <3>2. size \in Nat
      BY TransparentProxyAssumption
    <3> QED
      BY Zenon, <3>1, <3>2, MessageCounted
  <2>1. /\ r \in Conns /\ r.pc \in {"relay over", "relay send"}
        /\ r.missing = conn[c].missing /\ r.audited = conn[c].audited
    <3> HIDE DEF over
    <3> QED
      BY <1>0, <2>0 DEF Conns
  <2>2. conn[c].missing = {} /\ conn[c].audited
    BY Zenon, <1>0, <1>7 DEF RelayMessage, Fits
  <2>3. Fits(r)
    BY <1>0, <2>1, <2>2 DEF Fits
  <2>4. conn' = [conn EXCEPT ![c] = r] /\ access' = access
    BY <1>7, Zenon DEF RelayMessage
  <2> QED
    BY Zenon, <2>3, <2>4, ConnectionKeeps
<1> QED
  BY <1>1, <1>2, <1>3, <1>4, <1>5, <1>6, <1>7

\* The named handlers.
LEMMA NamedKeeps ==
    ASSUME ProxyInv, NEW c \in Connections,
           \/ \E h \in {"proxy", "secrets"} : ReceiveNamed(c, h)
           \/ NamedGrant(c) \/ NamedRefused(c) \/ ProxyAnswers(c) \/ SecretsFetched(c)
           \/ \E b \in BOOLEAN : ProxyAudit(c, b) \/ SecretsAudit(c, b)
    PROVE  ProxyInv'
<1> USE DEF ConnPcs, Admitted, Delivering, GrantPcs, Relaying
<1>0. conn[c] \in Conns /\ Fits(conn[c])
  BY DEF ProxyInv
<1>1. ASSUME NEW h \in {"proxy", "secrets"}, ReceiveNamed(c, h) PROVE ProxyInv'
  <2> DEFINE r == [At("named grant", {"grant"} \ access, FALSE) EXCEPT !.inside = h]
  <2>1. Fits(r)
    BY Zenon, BeginningFits DEF Parts
  <2>2. conn' = [conn EXCEPT ![c] = r] /\ access' = access
    BY <1>1 DEF ReceiveNamed
  <2> QED
    BY <2>1, <2>2, ConnectionKeeps
<1>2. CASE NamedGrant(c)
  BY <1>2, ReadGrantKeeps DEF NamedGrant
<1>3. CASE NamedRefused(c)
  BY <1>3, RefusalKeeps DEF NamedRefused, Refuse
<1>4. CASE ProxyAnswers(c)
  <2>1. conn[c].missing = {} /\ conn[c].audited
    BY <1>0, <1>4 DEF ProxyAnswers, Fits
  <2> QED
    BY <1>4, <2>1, GotoKeeps DEF ProxyAnswers
<1>5. CASE SecretsFetched(c)
  <2>1. conn[c].missing = {}
    BY <1>0, <1>5 DEF SecretsFetched, Fits
  <2> QED
    BY <1>5, <2>1, GotoKeeps DEF SecretsFetched
<1>6. ASSUME NEW b \in BOOLEAN, ProxyAudit(c, b) PROVE ProxyInv'
  BY <1>6, AuditKeeps DEF ProxyAudit
<1>7. ASSUME NEW b \in BOOLEAN, SecretsAudit(c, b) PROVE ProxyInv'
  BY <1>7, AuditKeeps DEF SecretsAudit
<1> QED
  BY <1>1, <1>2, <1>3, <1>4, <1>5, <1>6, <1>7
-----------------------------------------------------------------------------
\* Whatever the interleaving of handlers, relays, withdrawals and failing audit
\* events, on any number of connections: what a handler does is covered by a
\* check that saw all of access, and what a caller is given by an audit event.
THEOREM AccessCheckedAndAudited == ProxySpec => []CheckedAndAudited
<1>1. ProxyInit => ProxyInv
  <2> SUFFICES ASSUME ProxyInit PROVE ProxyInv
    OBVIOUS
  <2>1. "closed" \in ConnPcs /\ "closed" \notin Admitted \cup Delivering \cup GrantPcs
    BY DEF ConnPcs, Admitted, Delivering, GrantPcs, Relaying
  <2>2. /\ ClosedConnection \in Conns /\ ClosedConnection.pc = "closed"
        /\ ClosedConnection.missing = {}
    BY <2>1 DEF ClosedConnection, At, Conns
  <2>3. Fits(ClosedConnection)
    BY <2>1, <2>2 DEF Fits
  <2> QED
    BY <2>2, <2>3 DEF ProxyInit, ProxyInv
<1>2. ProxyInv /\ [ProxyNext]_proxyVars => ProxyInv'
  <2> SUFFICES ASSUME ProxyInv, [ProxyNext]_proxyVars PROVE ProxyInv'
    OBVIOUS
  <2>1. CASE UNCHANGED proxyVars
    BY <2>1 DEF proxyVars, ProxyInv, Fits
  <2>2. ASSUME NEW c \in Connections, TunnelEnds(c) \/ RelayOver(c) \/ HangUp(c)
        PROVE  ProxyInv'
    <3>1. conn' = [conn EXCEPT ![c] = ClosedConnection] /\ access' = access
      BY <2>2 DEF TunnelEnds, RelayOver, HangUp
    <3> QED
      BY Zenon, <3>1, ClosedFits, ConnectionKeeps
  <2> QED
    BY Zenon, <2>1, <2>2, AccessKeeps, ConnectKeeps, RequestKeeps, RelayKeeps, NamedKeeps
       DEF ProxyNext
<1>3. ProxyInv => CheckedAndAudited
  BY DEF ProxyInv, Fits, CheckedAndAudited, AdmittedWithinCheck, DeliveredAudited, Delivering
<1> QED
  BY <1>1, <1>2, <1>3, PTL DEF ProxySpec

-----------------------------------------------------------------------------
(***************************************************************************)
(* RunWrapper, for every time to live and latency it is meant for.         *)
(***************************************************************************)

Callers == Keyrings \cup {"agent of the file", "agent", "bearer", "basic", Absent}
AfterReceipt == {"listen", "helper", "ready", "spawn", "select", "close", "revoke",
                 "revoking", "revoked"}
BeforeSelect == {"start", "creating", "listen", "helper", "ready", "spawn"}
AfterClose == {"revoke", "revoking", "revoked", "done"}

CallTypes ==
    /\ kind \in {"static", "dynamic", "proxy", "container"}
    /\ keyring \in Callers
    /\ wrapper \in [step : BeforeSelect \cup AfterClose \cup {"select", "close", "killed"},
                    ok : BOOLEAN, subject : Callers, answer : {"none", "refused", "accepted"},
                    asked : BOOLEAN, unremoved : SUBSET Containers]

LeaseTypes ==
    /\ lease \in [state : {"none", "active", "revoked"}, left : Nat, life : Nat,
                  subject : Callers]
    /\ renewal \in [step : {"idle", "sleeping", "asked", "answered", "failed"}, wait : Nat]
    /\ timely \in BOOLEAN

ProcsTypes ==
    /\ procs = [child |-> procs.child, environment |-> procs.environment,
                listener |-> procs.listener, helper |-> procs.helper,
                target |-> procs.target]
    /\ procs.child \in {"none", "running", "exited", "killed"}
    /\ procs.listener \in {"none", "open", "closed"}
    /\ procs.helper \in {"none", "running", "exited", "removed"}
    /\ procs.target \in {"none", "asked", "created", "running", "exited", "removed"}

WrapperTypes == CallTypes /\ LeaseTypes /\ ProcsTypes

\* What runs at each step of the wrapper.
StagesFit ==
    /\ kind \in {"static", "dynamic"} => procs.listener = "none"
    /\ kind # "container" => procs.helper = "none" /\ procs.target = "none"
    /\ wrapper.step = "listen" => kind \in {"proxy", "container"}
    /\ wrapper.step \in {"helper", "ready"} => kind = "container"
    /\ wrapper.step \in BeforeSelect => procs.child = "none" /\ procs.target = "none"
    /\ wrapper.step \in {"start", "creating", "listen"} => procs.listener = "none"
    /\ wrapper.step \in {"start", "creating", "listen", "helper"} => procs.helper = "none"
    /\ wrapper.step = "close" => procs.child # "running"
    /\ wrapper.step \in AfterClose =>
           /\ procs.child # "running" /\ procs.listener # "open"
           /\ "helper" \notin wrapper.unremoved => procs.helper \in {"none", "removed"}
           /\ "target" \notin wrapper.unremoved => procs.target # "running"
    /\ wrapper.step \in {"start", "creating"} => wrapper.answer # "accepted"
    /\ wrapper.step \in AfterReceipt => wrapper.answer = "accepted"
    /\ wrapper.answer # "accepted" => ~wrapper.ok /\ procs.child = "none"

\* What AV and the wrapper know of the capability at each step.
ReceiptsFit ==
    /\ wrapper.step \in {"start", "creating"} => wrapper.answer = "none" /\ ~wrapper.ok
    /\ kind = "static" => lease.state = "none"
    /\ wrapper.step \in {"revoking", "revoked"} => wrapper.asked
    /\ wrapper.step = "revoked" => lease.state = "revoked"
    /\ wrapper.step = "done" /\ kind # "static" =>
           /\ wrapper.answer = "accepted" => wrapper.asked
           /\ wrapper.ok => lease.state = "revoked"

\* A child has the environment that was made for it.
EnvironmentFits == procs.child # "none" => procs.environment = ChildEnvironment

\* The time left exceeds what the renewal may still take, or it is all there is.
RenewalFits ==
    /\ renewal.step \in {"asked", "answered"} => renewal.wait <= RenewalLatency
    /\ timely /\ wrapper.step = "select" /\ lease.state = "active" /\ lease.life > 0
       /\ renewal.step # "failed"
         => /\ renewal.step # "idle"
            /\ \/ lease.left = lease.life
               \/ renewal.step = "sleeping" /\ renewal.wait + RenewalLatency < lease.left
               \/ renewal.step = "asked" /\ renewal.wait < lease.left
               \/ renewal.step = "answered"
                  /\ LeaseTtl - RenewalLatency + renewal.wait <= lease.left

WrapperInv == WrapperTypes /\ StagesFit /\ ReceiptsFit /\ EnvironmentFits /\ RenewalFits
-----------------------------------------------------------------------------
\* authenticate_request finds one of the callers there are.
LEMMA AuthenticatedCaller == CallTypes => AuthenticateRequest \in Callers
BY DEF CallTypes, AuthenticateRequest, Callers

\* Every step keeps the types of the call.
LEMMA CallTypesKept == CallTypes /\ [WrapperNext]_wrapperVars => CallTypes'
<1> SUFFICES ASSUME CallTypes, [WrapperNext]_wrapperVars PROVE CallTypes'
  OBVIOUS
<1>a. AuthenticateRequest \in Callers
  BY AuthenticatedCaller
<1> USE DEF CallTypes, callVars
<1> DEFINE Stages == BeforeSelect \cup AfterClose \cup {"select", "close", "killed"}
<1>b. ASSUME UNCHANGED <<kind, keyring>>, NEW step \in Stages, Step(step) PROVE CallTypes'
  BY <1>b DEF Step
<1>1. CASE AskForLease
  BY Zenon, <1>1, <1>a, <1>b DEF AskForLease, BeforeSelect, AfterClose
<1>2. CASE RefusedBeforeLease \/ LeaseNotReceived \/ RelayReady \/ RevocationReceived
            \/ Listen \/ StartHelper \/ Spawn \/ Revoke \/ Killed
  BY <1>2, <1>b DEF RefusedBeforeLease, LeaseNotReceived, RelayReady, RevocationReceived,
     Listen, StartHelper, Spawn, Revoke, Killed, BeforeSelect, AfterClose
<1>3. CASE LeaseReceived \/ LeaseRefused
  BY Zenon, <1>3 DEF LeaseReceived, LeaseRefused, BeforeSelect, AfterClose
<1>4. CASE SetupFails \/ MonitorFails
  BY <1>4 DEF SetupFails, MonitorFails, AfterFailure, AfterSelect, AfterClose
<1>5. ASSUME NEW ok \in BOOLEAN, Leave(ok) PROVE CallTypes'
  BY Zenon, <1>5 DEF Leave, AfterSelect, AfterClose
<1>6. CASE SeeChildExit \/ SeeRenewalFailure \/ SeeHelperExit \/ Interrupted
  BY Zenon, <1>5, <1>6 DEF SeeChildExit, SeeRenewalFailure, SeeHelperExit, Interrupted
<1>7. CASE AskForRevocation \/ RevocationNotReceived
  BY Zenon, <1>7 DEF AskForRevocation, RevocationNotReceived, WithoutRevocation, AfterClose
<1>8. CASE ChangeKeyring
  BY <1>8 DEF ChangeKeyring, Callers
<1>9. CASE UNCHANGED <<kind, keyring, wrapper>>
  BY <1>9
<1>10. CASE Close
  BY Zenon, <1>10 DEF Close, AfterClose
<1> QED
  BY <1>1, <1>2, <1>3, <1>4, <1>6, <1>7, <1>8, <1>9, <1>10 DEF WrapperNext, WrapperSteps,
     AskForRenewal, RenewalReceived, RenewalNotReceived, IssueLease, Renew, WithdrawLease,
     SecondPasses, ChildExits, TargetCreated, TargetStarted, TargetExits, HelperDies,
     wrapperVars

\* Every step keeps the types of lease and renewal.
LEMMA LeaseTypesKept ==
    CallTypes /\ LeaseTypes /\ [WrapperNext]_wrapperVars => LeaseTypes'
<1> SUFFICES ASSUME CallTypes, LeaseTypes, [WrapperNext]_wrapperVars PROVE LeaseTypes'
  OBVIOUS
<1> USE RunWrapperAssumption DEF LeaseTypes
<1>1. CASE Spawn
  BY <1>1 DEF Spawn, Renewing, RenewalDelay
<1>2. CASE AskForRenewal \/ RenewalNotReceived
  BY <1>2 DEF AskForRenewal, RenewalNotReceived, Renewal
<1>3. CASE RenewalReceived
  BY <1>3 DEF RenewalReceived, Renewing, RenewalDelay
<1>4. CASE IssueLease
  BY <1>4 DEF IssueLease, CallTypes
<1>5. CASE Renew
  BY <1>5 DEF Renew, Renewal
<1>6. CASE Revoke \/ WithdrawLease
  BY <1>6 DEF Revoke, WithdrawLease
<1>7. CASE SecondPasses
  <2>1. \A n \in Nat : Minus1(n) \in Nat
    BY DEF Minus1
  <2>2. lease'.left = Minus1(lease.left) /\ lease'.life = Minus1(lease.life)
    BY <1>7 DEF SecondPasses
  <2> QED
    BY Zenon, <1>7, <2>1, <2>2 DEF SecondPasses, Renewal
<1>8. CASE UNCHANGED <<lease, renewal, timely>>
  BY <1>8
<1> QED
  BY <1>1, <1>2, <1>3, <1>4, <1>5, <1>6, <1>7, <1>8 DEF WrapperNext, WrapperSteps,
     AskForLease, RefusedBeforeLease, LeaseNotReceived, LeaseRefused, LeaseReceived, Listen,
     StartHelper, RelayReady, SetupFails, MonitorFails, SeeChildExit, SeeRenewalFailure,
     SeeHelperExit, Interrupted, Leave, Close, AskForRevocation, RevocationReceived, RevocationNotReceived,
     ChangeKeyring, ChildExits, TargetCreated, TargetStarted, TargetExits, HelperDies,
     Killed, wrapperVars

\* Every step keeps the types of what runs.
LEMMA ProcsTypesKept == ProcsTypes /\ [WrapperNext]_wrapperVars => ProcsTypes'
<1> SUFFICES ASSUME ProcsTypes, [WrapperNext]_wrapperVars PROVE ProcsTypes'
  OBVIOUS
<1> USE DEF ProcsTypes
<1>1. CASE Spawn \/ MonitorFails
  BY Zenon, <1>1 DEF Spawn, MonitorFails
<1>2. CASE Listen \/ StartHelper \/ Killed
  BY <1>2 DEF Listen, StartHelper, Killed
<1>3. CASE SeeChildExit \/ SeeRenewalFailure \/ SeeHelperExit \/ Interrupted
  BY <1>3 DEF SeeChildExit, SeeRenewalFailure, SeeHelperExit, Interrupted, Leave, KillChild
<1>4. CASE Close
  BY Zenon, <1>4 DEF Close, Removed
<1>5. CASE ChildExits \/ TargetCreated \/ TargetStarted \/ TargetExits \/ HelperDies
  BY ZenonT(40), <1>5 DEF ChildExits, TargetCreated, TargetStarted, TargetExits, HelperDies
<1>6. CASE UNCHANGED procs
  BY <1>6
<1> QED
  BY <1>1, <1>2, <1>3, <1>4, <1>5, <1>6 DEF WrapperNext, WrapperSteps,
     AskForLease, RefusedBeforeLease, LeaseNotReceived, LeaseRefused, LeaseReceived, RelayReady,
     SetupFails, AskForRenewal, RenewalReceived, RenewalNotReceived, AskForRevocation,
     RevocationReceived, RevocationNotReceived, IssueLease, Renew, Revoke, WithdrawLease,
     SecondPasses, ChangeKeyring, wrapperVars

\* What runs at each step of the wrapper is what the steps before it started.
LEMMA StagesKept ==
    CallTypes /\ ProcsTypes /\ StagesFit /\ [WrapperNext]_wrapperVars => StagesFit'
<1> SUFFICES ASSUME CallTypes, ProcsTypes, StagesFit, [WrapperNext]_wrapperVars
             PROVE StagesFit'
  OBVIOUS
<1> USE DEF StagesFit, BeforeSelect, AfterReceipt, AfterClose, callVars
<1>1. CASE AskForLease \/ RefusedBeforeLease \/ LeaseNotReceived \/ RelayReady
            \/ RevocationReceived
  BY Zenon, <1>1 DEF CallTypes, AskForLease, RefusedBeforeLease, LeaseNotReceived, RelayReady,
     RevocationReceived, Step
<1>2. CASE LeaseReceived
  <2>1. wrapper.step = "creating" /\ UNCHANGED <<kind, procs>>
    BY Zenon, <1>2 DEF LeaseReceived
  <2>2. procs.child = "none" /\ procs.target = "none" /\ procs.listener = "none"
        /\ procs.helper = "none"
    BY Zenon, <2>1
  <2> HIDE DEF StagesFit
  <2>3. wrapper'.answer = "accepted"
    BY Zenon, <1>2 DEF LeaseReceived, CallTypes
  <2>4. /\ wrapper'.step \in {"spawn", "listen"}
        /\ wrapper'.step = "listen" => kind \in {"proxy", "container"}
    BY Zenon, <1>2 DEF LeaseReceived, CallTypes
  <2> QED
    BY ZenonT(40), <2>1, <2>2, <2>3, <2>4 DEF StagesFit
<1>16. CASE LeaseRefused
  BY Zenon, <1>16 DEF CallTypes, LeaseRefused
<1>3. CASE Listen \/ StartHelper
  BY <1>3 DEF CallTypes, ProcsTypes, Listen, StartHelper, Step
<1>4. CASE SetupFails
  BY <1>4 DEF CallTypes, SetupFails, AfterFailure, AfterSelect
<1>5. CASE Spawn
  BY <1>5 DEF CallTypes, ProcsTypes, Spawn, Step
<1>15. CASE MonitorFails
  BY <1>15 DEF CallTypes, ProcsTypes, MonitorFails, AfterFailure, AfterSelect
<1>6. ASSUME NEW ok \in BOOLEAN, wrapper.step = "select", Leave(ok) PROVE StagesFit'
  BY <1>6 DEF CallTypes, ProcsTypes, Leave, AfterSelect, KillChild
<1>7. CASE SeeChildExit \/ SeeRenewalFailure \/ SeeHelperExit \/ Interrupted
  BY Zenon, <1>6, <1>7 DEF SeeChildExit, SeeRenewalFailure, SeeHelperExit, Interrupted
<1>8. CASE Close
  BY <1>8 DEF CallTypes, ProcsTypes, Close, Containers, Removed
<1>9. CASE AskForRevocation \/ RevocationNotReceived
  BY Zenon, <1>9 DEF CallTypes, AskForRevocation, RevocationNotReceived
<1>10. CASE Revoke
  BY <1>10 DEF CallTypes, Revoke, Step
<1>11. CASE ChildExits \/ HelperDies
  BY ZenonT(40), <1>11 DEF ProcsTypes, ChildExits, HelperDies
<1>12. CASE TargetCreated \/ TargetStarted \/ TargetExits
  BY <1>12 DEF ProcsTypes, TargetCreated, TargetStarted, TargetExits
<1>13. CASE Killed
  BY <1>13 DEF CallTypes, ProcsTypes, Killed, Step
<1>14. CASE UNCHANGED <<kind, wrapper, procs>>
  BY Zenon, <1>14
<1> QED
  BY Zenon, <1>1, <1>2, <1>3, <1>4, <1>5, <1>7, <1>8, <1>9, <1>10, <1>11, <1>12, <1>13, <1>14,
     <1>15, <1>16
  DEF WrapperNext, WrapperSteps, AskForRenewal, RenewalReceived, RenewalNotReceived,
      IssueLease, Renew, WithdrawLease, SecondPasses, ChangeKeyring, wrapperVars

\* What the wrapper holds of AV is known at each of its steps.
LEMMA ReceiptsKept ==
    CallTypes /\ LeaseTypes /\ ReceiptsFit /\ [WrapperNext]_wrapperVars => ReceiptsFit'
<1> SUFFICES ASSUME CallTypes, LeaseTypes, ReceiptsFit, [WrapperNext]_wrapperVars
             PROVE ReceiptsFit'
  OBVIOUS
<1> USE DEF ReceiptsFit, CallTypes, callVars
<1>b. ASSUME UNCHANGED <<kind, lease>>, NEW step \in {"listen", "helper", "ready", "spawn",
             "select", "close", "revoke", "killed"}, Step(step),
             wrapper.step \notin {"start", "creating"} \/ step = "killed"
      PROVE ReceiptsFit'
  BY <1>b DEF Step
<1>1. CASE AskForLease \/ RefusedBeforeLease \/ LeaseNotReceived
  BY Zenon, <1>1 DEF AskForLease, RefusedBeforeLease, LeaseNotReceived, Step
<1>2. CASE LeaseReceived \/ LeaseRefused
  BY <1>2 DEF LeaseReceived, LeaseRefused
<1>3. CASE RelayReady \/ Listen \/ StartHelper \/ Spawn \/ Killed
  BY <1>3, <1>b DEF RelayReady, Listen, StartHelper, Spawn, Killed
<1>4. CASE SetupFails \/ MonitorFails
  BY <1>4 DEF SetupFails, MonitorFails, AfterFailure, AfterSelect
<1>5. ASSUME NEW ok \in BOOLEAN, wrapper.step = "select", Leave(ok) PROVE ReceiptsFit'
  BY <1>5 DEF Leave, AfterSelect
<1>6. CASE SeeChildExit \/ SeeRenewalFailure \/ SeeHelperExit \/ Interrupted
  BY Zenon, <1>5, <1>6 DEF SeeChildExit, SeeRenewalFailure, SeeHelperExit, Interrupted
<1>7. CASE AskForRevocation
  BY <1>7 DEF AskForRevocation
<1>8. CASE Revoke
  BY <1>8 DEF LeaseTypes, Revoke, Step
<1>9. CASE RevocationReceived
  BY <1>9 DEF RevocationReceived, Step
<1>10. CASE RevocationNotReceived
  BY <1>10 DEF RevocationNotReceived, WithoutRevocation
<1>11. CASE IssueLease
  BY <1>11 DEF IssueLease
<1>12. CASE WithdrawLease \/ Renew \/ SecondPasses
  BY Zenon, <1>12 DEF LeaseTypes, WithdrawLease, Renew, SecondPasses
<1>13. CASE UNCHANGED <<kind, wrapper, lease>>
  BY Zenon, <1>13
<1>14. CASE Close
  BY Zenon, <1>14 DEF Close
<1> QED
  BY ZenonT(40), <1>1, <1>2, <1>3, <1>4, <1>6, <1>7, <1>8, <1>9, <1>10, <1>11, <1>12, <1>13,
     <1>14
  DEF WrapperNext, WrapperSteps, AskForRenewal, RenewalReceived, RenewalNotReceived,
      ChildExits, TargetCreated, TargetStarted, TargetExits, HelperDies, ChangeKeyring,
      wrapperVars

\* What the wrapper was called with does not change.
LEMMA CallKept == [WrapperNext]_wrapperVars => UNCHANGED callVars
BY DEF WrapperNext, WrapperSteps, AskForLease, RefusedBeforeLease, LeaseNotReceived,
   LeaseReceived, Listen, StartHelper, RelayReady, SetupFails, Spawn, MonitorFails,
   LeaseRefused, AskForRenewal,
   RenewalReceived, RenewalNotReceived, SeeChildExit, SeeRenewalFailure, SeeHelperExit,
   Interrupted, Leave, Close, AskForRevocation, RevocationReceived, RevocationNotReceived,
   IssueLease, Renew, Revoke, WithdrawLease, SecondPasses, ChangeKeyring, ChildExits,
   TargetCreated, TargetStarted, TargetExits, HelperDies, Killed, wrapperVars, callVars

\* The environment of the child is the one it was started with.
LEMMA EnvironmentKept ==
    ProcsTypes /\ EnvironmentFits /\ [WrapperNext]_wrapperVars => EnvironmentFits'
<1> SUFFICES ASSUME ProcsTypes, EnvironmentFits, [WrapperNext]_wrapperVars
             PROVE EnvironmentFits'
  OBVIOUS
<1>1. ChildEnvironment' = ChildEnvironment
  BY Zenon, CallKept DEF callVars, ChildEnvironment, ProfileCommand, ProxyChildCommand,
     EnforcedContainerCommand, Environment
<1>2. CASE Spawn \/ MonitorFails
  BY <1>1, <1>2 DEF EnvironmentFits, ProcsTypes, Spawn, MonitorFails
<1>3. ASSUME procs'.environment = procs.environment,
             procs'.child # "none" => procs.child # "none"
      PROVE EnvironmentFits'
  BY <1>1, <1>3 DEF EnvironmentFits
<1>4. CASE Listen \/ StartHelper \/ Close \/ Killed
  BY Zenon, <1>3, <1>4 DEF ProcsTypes, Listen, StartHelper, Close, Killed
<1>5. CASE SeeChildExit \/ SeeRenewalFailure \/ SeeHelperExit \/ Interrupted
  BY <1>3, <1>5 DEF ProcsTypes, SeeChildExit, SeeRenewalFailure, SeeHelperExit,
     Interrupted, Leave, KillChild
<1>6. CASE ChildExits \/ TargetCreated \/ TargetStarted \/ TargetExits \/ HelperDies
  BY ZenonT(40), <1>3, <1>6 DEF ProcsTypes, ChildExits, TargetCreated, TargetStarted, TargetExits,
     HelperDies
<1>7. CASE UNCHANGED procs
  BY Zenon, <1>3, <1>7
<1> QED
  BY <1>2, <1>4, <1>5, <1>6, <1>7 DEF WrapperNext, WrapperSteps,
     AskForLease, RefusedBeforeLease, LeaseNotReceived, LeaseRefused, LeaseReceived, RelayReady,
     SetupFails, AskForRenewal, RenewalReceived, RenewalNotReceived, AskForRevocation,
     RevocationReceived, RevocationNotReceived, IssueLease, Renew, Revoke, WithdrawLease,
     SecondPasses, ChangeKeyring, wrapperVars

\* The renewal task keeps ahead of the time to live: it asks when half of the time
\* is left, and the answer takes at most RenewalLatency.
LEMMA RenewalKept ==
    CallTypes /\ LeaseTypes /\ ReceiptsFit /\ RenewalFits /\ [WrapperNext]_wrapperVars
        => RenewalFits'
<1> SUFFICES ASSUME CallTypes, LeaseTypes, ReceiptsFit, RenewalFits,
                    [WrapperNext]_wrapperVars
             PROVE RenewalFits'
  OBVIOUS
<1> USE RunWrapperAssumption DEF RenewalFits, LeaseTypes, callVars
<1>1. CASE Spawn
  <2>1. kind = "static" => lease.state = "none"
    BY DEF ReceiptsFit
  <2>2. ASSUME lease.left > 1, RenewalLatency < lease.left - lease.left \div 2
        PROVE RenewalDelay(lease.left) + RenewalLatency < lease.left
    BY <2>2 DEF RenewalDelay
  <2> QED
    BY Zenon, <1>1, <2>1, <2>2 DEF Spawn, Renewing
<1>2. CASE AskForRenewal
  BY <1>2 DEF AskForRenewal, Renewal
<1>3. CASE Renew
  BY <1>3 DEF Renew, Renewal
<1>4. CASE RenewalReceived
  <2>1. ASSUME LeaseTtl - RenewalLatency <= lease.left
        PROVE RenewalDelay(lease.left) + RenewalLatency < lease.left
    BY <2>1 DEF RenewalDelay
  <2> QED
    BY <1>4, <2>1 DEF RenewalReceived, Renewing
<1>5. CASE RenewalNotReceived
  BY <1>5 DEF RenewalNotReceived, Renewal
<1>6. CASE SecondPasses
  <2>1. lease'.left = Minus1(lease.left) /\ lease'.life = Minus1(lease.life)
        /\ lease'.state = lease.state /\ renewal'.step = renewal.step
        /\ renewal'.wait = Minus1(renewal.wait)
    BY <1>6 DEF SecondPasses, Renewal
  <2> QED
    BY <1>6, <2>1 DEF SecondPasses, Minus1
<1>7. CASE IssueLease
  BY <1>7 DEF IssueLease
<1>8. CASE Revoke \/ WithdrawLease
  BY <1>8 DEF Revoke, WithdrawLease
<1>9. CASE /\ UNCHANGED <<lease, renewal, timely>>
           /\ wrapper'.step = "select" => wrapper.step = "select"
  BY <1>9
<1>10. CASE AskForLease \/ RefusedBeforeLease \/ LeaseNotReceived \/ LeaseRefused
             \/ LeaseReceived \/ Listen \/ StartHelper \/ RelayReady \/ SetupFails
             \/ MonitorFails
  BY ZenonT(40), <1>9, <1>10 DEF AskForLease, RefusedBeforeLease, LeaseNotReceived,
     LeaseRefused, LeaseReceived, Listen, StartHelper, RelayReady, SetupFails, MonitorFails, AfterFailure, AfterSelect,
     Step, CallTypes
<1>11. CASE \/ SeeChildExit \/ SeeRenewalFailure \/ SeeHelperExit \/ Interrupted
            \/ Close \/ AskForRevocation \/ RevocationReceived \/ RevocationNotReceived
            \/ Killed
  BY ZenonT(40), <1>9, <1>11 DEF SeeChildExit, SeeRenewalFailure, SeeHelperExit, Interrupted, Leave,
     AfterSelect, Close, AskForRevocation, RevocationReceived, RevocationNotReceived,
     Killed, Step, CallTypes
<1> QED
  BY <1>1, <1>2, <1>3, <1>4, <1>5, <1>6, <1>7, <1>8, <1>9, <1>10, <1>11
  DEF WrapperNext, WrapperSteps, ChildExits, TargetCreated, TargetStarted, TargetExits,
      HelperDies, ChangeKeyring, wrapperVars

\* The wrapper has started nothing: the invariant holds.
LEMMA WrapperInitially == WrapperInit => WrapperInv
<1> SUFFICES ASSUME WrapperInit PROVE WrapperInv
  OBVIOUS
<1>1. CallTypes
  BY RunWrapperAssumption DEF WrapperInit, CallTypes, Callers, BeforeSelect
<1>2. LeaseTypes
  BY Zenon DEF WrapperInit, LeaseTypes, Callers
<1>3. ProcsTypes /\ EnvironmentFits
  BY Zenon DEF WrapperInit, ProcsTypes, EnvironmentFits
<1>4. StagesFit /\ ReceiptsFit
  BY Zenon DEF WrapperInit, StagesFit, ReceiptsFit, AfterReceipt, BeforeSelect, AfterClose
<1>5. RenewalFits
  BY DEF WrapperInit, RenewalFits
<1> QED
  BY <1>1, <1>2, <1>3, <1>4, <1>5 DEF WrapperInv, WrapperTypes

\* The invariant holds throughout.
LEMMA WrapperInvariant == WrapperSpec => []WrapperInv
<1>1. WrapperInv /\ [WrapperNext]_wrapperVars => WrapperInv'
  BY CallTypesKept, LeaseTypesKept, ProcsTypesKept, StagesKept, ReceiptsKept,
     EnvironmentKept, RenewalKept DEF WrapperInv, WrapperTypes
<1> QED
  BY <1>1, WrapperInitially, PTL DEF WrapperSpec

\* When av <profile>, av run or av run --container has ended by itself, whichever
\* step of setup, run, renewal or revocation failed, neither child nor listener is
\* left running, nor a container docker did not fail to remove, and AV was asked to
\* revoke the capability that was accepted; success is reported only when AV has
\* revoked it, and no child ran under an answer that was lost or refused.
THEOREM WrapperCleansUp == WrapperSpec => []NothingLeftBehind
<1>1. WrapperInv => RevocationMandatory
  BY Zenon DEF WrapperInv, StagesFit, ReceiptsFit, RevocationMandatory
<1>2. WrapperInv => NothingLeftRunning
  BY Zenon DEF WrapperInv, StagesFit, NothingLeftRunning, AfterClose
<1> QED
  BY <1>1, <1>2, WrapperInvariant, PTL DEF NothingLeftBehind

\* While AV answers within RenewalLatency, neither a lease nor a session runs out
\* under a running child before its end of life, for every time to live that
\* RunWrapperAssumption admits.
THEOREM RenewalsInTime == WrapperSpec => []KeptAlive
<1>1. WrapperInv => KeptAlive
  BY RunWrapperAssumption DEF WrapperInv, WrapperTypes, LeaseTypes, RenewalFits, KeptAlive
<1> QED
  BY <1>1, WrapperInvariant, PTL

\* The child is started without the wrapper's own credentials and, where it is
\* proxied, with the helper as its only proxy, whatever the wrapper's environment
\* and the exports of the profile contain.
THEOREM ChildStartsClean == WrapperSpec => []ChildEnvironmentClean
<1>1. ASSUME WrapperInv PROVE ChildEnvironmentClean
  <2>1. SUFFICES ASSUME procs.child # "none"
                 PROVE LET env == ChildEnvironment
                       IN  /\ DOMAIN env \cap WrapperCredentials = {}
                           /\ kind \in {"proxy", "container"} =>
                               \A name \in ProxyNames : name \in DOMAIN env /\ env[name] = "helper"
                           /\ \A name \in DOMAIN env \cap BypassNames :
                               kind \in {"proxy", "container"} => env[name] = "helper"
    BY <1>1 DEF WrapperInv, EnvironmentFits, ChildEnvironmentClean
  <2>2. kind \in {"static", "dynamic", "proxy", "container"}
    BY <1>1 DEF WrapperInv, WrapperTypes, CallTypes
  <2>3. CASE kind \in {"static", "dynamic"}
    BY <2>3 DEF ChildEnvironment, ProfileCommand, Environment
  <2>4. CASE kind = "proxy"
    BY <2>4 DEF ChildEnvironment, ProxyChildCommand, Environment, ProxyNames, BypassNames,
       TrustNames, WrapperCredentials
  <2>5. CASE kind = "container"
    BY <2>5 DEF ChildEnvironment, EnforcedContainerCommand, Environment, ProxyNames,
       BypassNames, TrustNames, WrapperCredentials
  <2> QED
    BY <2>2, <2>3, <2>4, <2>5
<1> QED
  BY <1>1, WrapperInvariant, PTL

-----------------------------------------------------------------------------
(***************************************************************************)
(* SigningKeys and CredentialReload.                                       *)
(***************************************************************************)

\* last_attempt is the time of the last fetch: a request that the cooldown
\* turns away does not touch it.
AttemptsAreFetches ==
    /\ sinceAttempt = sinceFetch
    /\ sinceFetch \in 0..JwksCooldown

\* However many requests carry unknown keys, two fetches of the issuer's keys
\* begin at least a cooldown apart.
THEOREM FetchesAreSpaced == KeysSpec => FetchesSpaced
<1> USE SigningKeysAssumption
<1>1. KeysInit => AttemptsAreFetches
  BY DEF KeysInit, AttemptsAreFetches
<1>2. AttemptsAreFetches /\ [KeysNext]_keyVars => AttemptsAreFetches'
  <2> SUFFICES ASSUME AttemptsAreFetches, [KeysNext]_keyVars PROVE AttemptsAreFetches'
    OBVIOUS
  <2>1. CASE KeysTick
    BY <2>1 DEF KeysTick, Elapse, AttemptsAreFetches
  <2>2. ASSUME NEW r \in BearerRequests, LockRefresh(r) PROVE AttemptsAreFetches'
    BY <2>2 DEF LockRefresh, AttemptBegins, AttemptSkipped, AttemptsAreFetches
  <2>3. CASE UNCHANGED <<sinceAttempt, sinceFetch>>
    BY <2>3 DEF AttemptsAreFetches
  <2> QED
    BY <2>1, <2>2, <2>3 DEF KeysNext, keyVars, RotateKeys, ReceiveBearer, ServeKeys, StoreKeys,
       LookAgain, Served, DropBearer
<1>3. AttemptsAreFetches /\ [KeysNext]_keyVars =>
        [refreshing' # Absent /\ refreshing' # refreshing => sinceFetch = JwksCooldown]_keyVars
  <2> SUFFICES ASSUME AttemptsAreFetches, KeysNext, refreshing' # Absent, refreshing' # refreshing
               PROVE  sinceFetch = JwksCooldown
    OBVIOUS
  <2>1. ASSUME NEW r \in BearerRequests, LockRefresh(r) PROVE sinceFetch = JwksCooldown
    BY <2>1 DEF LockRefresh, AttemptsAreFetches
  <2> QED
    BY <2>1 DEF KeysNext, KeysTick, RotateKeys, ReceiveBearer, ServeKeys, StoreKeys, LookAgain,
       Served, DropBearer
<1> QED  BY <1>1, <1>2, <1>3, PTL DEF KeysSpec, FetchesSpaced
-----------------------------------------------------------------------------
\* The last pool is open, and what is or will be closed is older.
Listed == \E S : pools \in Seq(S)
PoolsFit ==
    /\ Listed
    /\ Current > 0 /\ ~pools[Current].closed
    /\ closing \subseteq 1..(Current - 1)
    /\ reloader.pc = "swapped" => reloader.old \in 1..(Current - 1)

\* Whatever the reloader and the tasks that close pools are in the middle of,
\* store operations are given a pool that is open and stays so.
THEOREM CurrentPoolStaysOpen == ReloadSpec => []CurrentPoolOpen
<1> USE DEF Current
<1>1. ReloadInit => PoolsFit
  <2> SUFFICES ASSUME ReloadInit PROVE PoolsFit
    OBVIOUS
  <2> DEFINE first == [credentials |-> credentialFile, closed |-> FALSE]
  <2>1. ~first.closed  OBVIOUS
  <2>2. pools = <<first>> /\ reloader.pc = "sleeping" /\ closing = {}
    BY DEF ReloadInit, Sleeping
  <2> HIDE DEF first
  <2>3. pools \in Seq({first}) /\ Len(pools) = 1 /\ pools[1] = first  BY <2>2
  <2>4. Listed  BY <2>3 DEF Listed
  <2>5. ~pools[Len(pools)].closed  BY <2>1, <2>3
  <2> QED  BY <2>2, <2>3, <2>4, <2>5 DEF PoolsFit
<1>2. PoolsFit /\ [ReloadNext]_reloadVars => PoolsFit'
  <2> SUFFICES ASSUME PoolsFit, [ReloadNext]_reloadVars PROVE PoolsFit'
    OBVIOUS
  <2>1. PICK S : pools \in Seq(S)  BY DEF PoolsFit, Listed
  <2>2. CASE ReplacementConnected
    <3> DEFINE made == [credentials |-> reloader.credentials, closed |-> FALSE]
    <3>1. pools' = Append(pools, made) /\ ~made.closed
      BY <2>2 DEF ReplacementConnected
    <3>2. reloader'.old = Len(pools) /\ closing' = closing
      BY <2>2 DEF ReplacementConnected, SwappedOut
    <3> HIDE DEF made
    <3>3. pools' \in Seq(S \cup {made}) /\ Len(pools') = Len(pools) + 1
          /\ pools'[Len(pools) + 1] = made
      BY <2>1, <3>1
    <3>4. ~pools'[Len(pools')].closed  BY <3>1, <3>3
    <3>5. Listed'  BY <3>3 DEF Listed
    <3> QED  BY <2>1, <3>2, <3>3, <3>4, <3>5 DEF PoolsFit
  <2>3. ASSUME NEW g \in closing, ClosePool(g) PROVE PoolsFit'
    <3>1. g \in 1..Len(pools) /\ g # Len(pools)  BY <2>1 DEF PoolsFit
    <3> DEFINE closed == [pools[g] EXCEPT !.closed = TRUE]
    <3>2. pools' = [pools EXCEPT ![g] = closed]  BY <2>3 DEF ClosePool
    <3> HIDE DEF closed
    <3>3. pools \in Seq(S \cup {closed})  BY <2>1
    <3>4. pools' \in Seq(S \cup {closed}) /\ Len(pools') = Len(pools)
          /\ pools'[Len(pools)] = pools[Len(pools)]
      BY <3>1, <3>2, <3>3 DEF PoolsFit
    <3>5. Listed'  BY <3>4 DEF Listed
    <3> QED  BY <2>3, <3>4, <3>5 DEF ClosePool, PoolsFit
  <2>4. CASE RecordFingerprint
    <3>1. closing' = closing \cup {reloader.old} /\ reloader'.pc = "sleeping"
          /\ reloader.pc = "swapped" /\ pools' = pools
      BY <2>4 DEF RecordFingerprint, Sleeping
    <3>2. Listed'  BY <3>1 DEF Listed, PoolsFit
    <3> QED  BY Zenon, <3>1, <3>2 DEF PoolsFit
  <2>5. CASE ReloadTick \/ ReplacementFails
    <3>1. reloader'.pc # "swapped" /\ pools' = pools /\ closing' = closing
      BY <2>5 DEF ReloadTick, ReplacementFails, Sleeping
    <3>2. Listed'  BY <3>1 DEF Listed, PoolsFit
    <3> QED  BY <3>1, <3>2 DEF PoolsFit
  <2>6. CASE UNCHANGED <<pools, closing, reloader>>
    BY <2>6 DEF PoolsFit, Listed
  <2> QED
    BY <2>2, <2>3, <2>4, <2>5, <2>6 DEF ReloadNext, reloadVars, RotateFile, RotateDatabase,
       ClonePool, Connection, ConnectionRefused, OperationEnds
<1>3. PoolsFit => CurrentPoolOpen
  BY DEF PoolsFit, CurrentPoolOpen
<1> QED  BY <1>1, <1>2, <1>3, PTL DEF ReloadSpec
=============================================================================
