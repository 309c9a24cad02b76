----------------------------- MODULE Handshake -----------------------------
(***************************************************************************)
(* MyProtocol.inst() (my_protocol.ts) with the authentication plugins      *)
(* (auth_plugins.ts): one attempt to connect, from an accepted TCP         *)
(* connection to an authenticated one. The client and the server take      *)
(* turns; what was sent is `out` until the server answers it, and `in` are *)
(* the packets that the client did not read yet. The contents of packets   *)
(* are what the other side tells apart, and the cryptography is left out:  *)
(* a token is named by how it carries the password.                        *)
(*                                                                         *)
(* The server is external. It follows the protocol that the code expects,  *)
(* chooses the plugins freely, and may refuse or disconnect at any point.  *)
(* #clearDisconnected(), the step before initSql, is in Pool.              *)
(***************************************************************************)
EXTENDS Integers, Sequences

CONSTANTS
    Dsns,    \* DSNs: see DsnType
    Offers,  \* sets of capabilities that a server may offer
    Allows   \* what the server does although the code is not made for it

AllPlugins == {"native", "caching_sha2", "sha256", "clear", "ed25519", "parsec"}

\* key: serverPublicKey is "pinned", allowPublicKeyRetrieval ("retrieve") or none.
\* pwd: the password is not empty. zstdLib: isZstdSupported().
DsnType == [tls : BOOLEAN, pipe : BOOLEAN, pwd : BOOLEAN, key : {"no", "pinned", "retrieve"},
            clear : BOOLEAN, compress : {"no", "any", "zlib", "zstd"}, zstdLib : BOOLEAN,
            initSql : BOOLEAN, timeout : Nat, interval : Nat]

ASSUME HandshakeAssumption ==
    /\ Dsns \subseteq DsnType
    /\ Offers \subseteq SUBSET {"ssl", "zlib", "zstd"}
    /\ Allows \subseteq {"factorAfterMore"}

VARIABLES
    dsn,  \* the DSN
    h     \* the attempt

\* pc: what inst() awaits. caps: capabilityFlags. plugin, pstate: the AuthPlugin
\* and its #state. isTls: the connection is encrypted. closer: #closer.
\* comp: compression. err: what was thrown. sv: what the server waits for.
\* acct: the plugin of the user's account. svComp: the server's compression.
NoAttempt == [pc |-> "no", caps |-> {}, plugin |-> "native", pstate |-> "Initial", isTls |-> FALSE,
              closer |-> "tcp", comp |-> "no", err |-> "no", in |-> <<>>, out |-> "no",
              sv |-> "no", acct |-> "native", svComp |-> "no"]

\* Deno.connect() resolved; the server speaks first.
Accepted == [NoAttempt EXCEPT !.pc = "greeting", !.sv = "greeting"]

HandshakeTypeOK ==
    /\ dsn \in Dsns
    /\ h.pc \in {"no", "greeting", "tls", "auth", "auth2", "more", "more2", "init", "done", "thrown"}
    /\ h.caps \subseteq {"ssl", "zlib", "zstd"}
    /\ h.pstate \in {"Initial", "Encrypt", "Done"}
    /\ h.closer \in {"tcp", "tls"}
    /\ h.err \in {"no", "refused", "disconnected", "fatal"}
    /\ h.err # "no" <=> h.pc = "thrown"
    /\ Len(h.in) <= 2
    \* the two sides take turns: at most one of them has the word
    /\ h.out # "no" => h.in = <<>>

Packet(kind, what) == [kind |-> kind, what |-> what]

-----------------------------------------------------------------------------
(* The client *)

\* isConnectionTrusted
Trusted == dsn.pipe \/ dsn.tls

\* What quickAuth() and progress() come to: the token to send ("no": nothing,
\* "throw": an exception) and the new #state of the plugin.
Auth(token, pstate) == [token |-> token, pstate |-> pstate]

\* encodeAppendZeroByte(password), and the same for an empty password
ClearText == IF dsn.pwd THEN "clear" ELSE "clearEmpty"

CanGetPublicKey == Trusted \/ dsn.key # "no"

\* mysql_native_password
NativeQuickAuth == Auth(IF dsn.pwd THEN "hash" ELSE "empty", "Initial")

CachingSha2QuickAuth ==
    IF ~dsn.pwd THEN Auth("empty", "Initial")
    ELSE Auth(IF CanGetPublicKey THEN "hash" ELSE "throw", "Initial")

Sha256QuickAuth ==
    CASE ~dsn.pwd -> Auth("empty", "Done")
      [] dsn.pwd /\ Trusted -> Auth(ClearText, "Done")
      [] dsn.pwd /\ ~Trusted /\ dsn.key = "pinned" -> Auth("cipher", "Done")
      [] dsn.pwd /\ ~Trusted /\ dsn.key = "retrieve" -> Auth("keyRequest", "Encrypt")
      [] dsn.pwd /\ ~Trusted /\ dsn.key = "no" -> Auth("throw", "Initial")

ClearQuickAuth == Auth(IF Trusted \/ dsn.clear THEN ClearText ELSE "throw", "Initial")

Ed25519QuickAuth == Auth("signature", "Initial")

\* The empty token asks for the extended salt.
ParsecQuickAuth == Auth("empty", "Initial")

\* quickAuth() of the plugin
QuickAuth(plugin) ==
    CASE plugin = "native" -> NativeQuickAuth
      [] plugin = "caching_sha2" -> CachingSha2QuickAuth
      [] plugin = "sha256" -> Sha256QuickAuth
      [] plugin = "clear" -> ClearQuickAuth
      [] plugin = "ed25519" -> Ed25519QuickAuth
      [] plugin = "parsec" -> ParsecQuickAuth

CachingSha2Progress(pstate, what) ==
    CASE pstate = "Encrypt" -> Auth("cipher", "Done")
      [] pstate = "Initial" /\ what = "fast" -> Auth("no", "Done")
      [] pstate = "Initial" /\ what = "full" ->
            IF Trusted THEN Auth(ClearText, "Done")
            ELSE IF dsn.key = "pinned" THEN Auth("cipher", "Done")
            ELSE IF CanGetPublicKey THEN Auth("keyRequest", "Encrypt")
            ELSE Auth("throw", pstate)
      [] OTHER -> Auth("throw", pstate)

Sha256Progress(pstate) ==
    IF pstate = "Encrypt" THEN Auth("cipher", "Done") ELSE Auth("throw", pstate)

ParsecProgress(pstate, what) ==
    IF pstate = "Initial" /\ what = "salt" THEN Auth("signature", "Done") ELSE Auth("throw", pstate)

\* progress(), except in state Done, where it returns true
Progress_UntrustedFull(plugin, pstate, what) ==
    CASE plugin = "caching_sha2" /\ what = "fast" -> Auth("no", "Done")
      [] plugin = "caching_sha2" /\ what = "full" -> Auth(ClearText, "Done")
      [] OTHER -> Auth("throw", pstate)

Progress_SendsNothing(plugin, pstate, what) ==
    CASE plugin = "parsec" /\ pstate = "Initial" /\ what = "salt" -> Auth("no", "Done")
      [] OTHER -> Auth("throw", pstate)

Progress(plugin, pstate, what) ==
    CASE plugin = "caching_sha2" -> CachingSha2Progress(pstate, what)
      [] plugin = "sha256" -> Sha256Progress(pstate)
      [] plugin = "parsec" -> ParsecProgress(pstate, what)
      [] OTHER -> Auth("throw", pstate)

\* #applyClientCapabilities(): what is left of the server's flags. The runtime
\* without zstd throws if zstd is pinned.
Capabilities(offer) ==
    offer \cap ( (IF dsn.tls /\ ~dsn.pipe THEN {"ssl"} ELSE {})
                 \cup (CASE dsn.compress = "no" -> {}
                         [] dsn.compress \in {"any", "zstd"} /\ dsn.zstdLib /\ "zstd" \in offer -> {"zstd"}
                         [] dsn.compress = "zstd" -> {}
                         [] OTHER -> {"zlib"}) )

CompressionThrows == dsn.compress = "zstd" /\ ~dsn.zstdLib

Throw(a, err) == [a EXCEPT !.pc = "thrown", !.err = err, !.in = <<>>, !.out = "no"]

\* A token is sent, or the plugin threw.
SendToken(a, auth, pc) ==
    IF auth.token = "throw" THEN Throw(a, "fatal")
    ELSE [a EXCEPT !.pc = pc, !.pstate = auth.pstate, !.out = auth.token]

\* #writeHandshakeResponse()
WriteHandshakeResponse(a) == SendToken(a, QuickAuth(a.plugin), "auth")

\* The packet that the client reads next
Reads(pcs) == h.pc \in pcs /\ h.in # <<>>
Taken == [h EXCEPT !.in = Tail(@)]

Greeted(a, plugin, offer) ==
    LET b == [a EXCEPT !.plugin = plugin, !.caps = Capabilities(offer)]
    IN  IF plugin \notin AllPlugins \/ CompressionThrows THEN Throw(b, "fatal")
        ELSE IF ~dsn.tls \/ dsn.pipe THEN WriteHandshakeResponse(b)
        ELSE IF "ssl" \notin b.caps THEN Throw(b, "fatal")
        ELSE [b EXCEPT !.pc = "tls", !.out = "sslRequest"]

\* #readHandshake(), and inst() up to the next await of the server
ReadHandshake ==
    /\ Reads({"greeting"})
    /\ h' = CASE Head(h.in).kind = "greeting" -> Greeted(Taken, Head(h.in).what, Head(h.in).offer)
              [] OTHER -> Throw(h, "disconnected")
    /\ UNCHANGED dsn

\* #upgradeToTls(): Deno.startTls() detached the TCP connection, and the TLS
\* handshake succeeded.
UpgradeToTls ==
    /\ h.pc = "tls" /\ h.sv = "tls"
    /\ h' = WriteHandshakeResponse([h EXCEPT !.isTls = TRUE, !.closer = "tls", !.sv = "response"])
    /\ UNCHANGED dsn

\* Deno.startTls() itself rejected, or the TLS handshake failed (like an
\* untrusted certificate).
UpgradeFails ==
    /\ h.pc = "tls" /\ h.sv = "tls"
    /\ h' \in {Throw(a, "fatal") : a \in {h, [h EXCEPT !.isTls = TRUE, !.closer = "tls"]}}
    /\ UNCHANGED dsn

\* inst() after #readAuthResponse() returned undefined: #enableCompression(),
\* and initSql is sent.
Authenticated(a) ==
    [a EXCEPT !.comp = IF "zstd" \in a.caps THEN "zstd" ELSE IF "zlib" \in a.caps THEN "zlib" ELSE "no",
              !.pc = IF dsn.initSql THEN "init" ELSE "done",
              !.out = IF dsn.initSql THEN "query" ELSE "no"]

\* A pass of the loop in #readAuthResponse(): progress() is given what was read
\* last, which is still the previous packet if this one is OK.
Progressed(a, what, pc) ==
    IF a.pstate = "Done" THEN Authenticated(a)
    ELSE SendToken(a, Progress(a.plugin, a.pstate, what), pc)

\* AuthSwitchRequest: #writeAuthSwitchResponse() the first time. The second call
\* of #readAuthResponse() is not checked for one.
Switched(a, plugin) ==
    IF plugin \notin AllPlugins THEN Throw(a, "fatal")
    ELSE IF a.pc = "auth2" THEN Authenticated(a)
    ELSE SendToken([a EXCEPT !.plugin = plugin], QuickAuth(plugin), "auth2")

\* #readAuthResponse(): the first packet
ReadAuthResponse_TrustsMore ==
    /\ Reads({"auth", "auth2"})
    /\ LET p == Head(h.in) IN
       h' = CASE p.kind = "disconnect" -> Throw(h, "disconnected")
              [] p.kind = "switch" -> Switched(Taken, p.what)
              [] p.kind \in {"ok", "more"} -> Authenticated(Taken)
              [] OTHER -> Throw(h, "fatal")
    /\ UNCHANGED dsn

ReadAuthResponse ==
    /\ Reads({"auth", "auth2"})
    /\ LET p == Head(h.in) IN
       h' = CASE p.kind = "disconnect" -> Throw(h, "disconnected")
              [] p.kind = "switch" -> Switched(Taken, p.what)
              [] p.kind = "ok" -> Authenticated(Taken)
              [] p.kind = "more" -> Progressed(Taken, p.what, IF h.pc = "auth" THEN "more" ELSE "more2")
              [] OTHER -> Throw(h, "fatal")    \* ERR, AUTH_NEXT_FACTOR
    /\ UNCHANGED dsn

\* #readAuthResponse(): the loop. #readPacket() throws for ERR.
ReadMore ==
    /\ Reads({"more", "more2"})
    /\ LET p == Head(h.in) IN
       h' = CASE p.kind = "disconnect" -> Throw(h, "disconnected")
              [] p.kind = "err" -> Throw(h, "fatal")
              [] OTHER -> Progressed(Taken, p.what, h.pc)
    /\ UNCHANGED dsn

\* sendComQuery(initSql)
ReadInitSql ==
    /\ Reads({"init"})
    /\ h' = CASE Head(h.in).kind = "ok" -> [Taken EXCEPT !.pc = "done"]
              [] Head(h.in).kind = "disconnect" -> Throw(h, "disconnected")
              [] OTHER -> Throw(h, "fatal")
    /\ UNCHANGED dsn

-----------------------------------------------------------------------------
(* The server *)

Says(packets, sv) == [h EXCEPT !.in = packets, !.out = "no", !.sv = sv]

\* The user is let in, refused, or asked for another factor. The last, if it
\* comes in the loop of #readAuthResponse(), is taken there for the end of it.
Verdict ==
    {Says(<<Packet("ok", "")>>, "ready"), Says(<<Packet("err", "")>>, "closed")}
    \cup (IF h.pc \in {"more", "more2"} /\ "factorAfterMore" \notin Allows THEN {}
          ELSE {Says(<<Packet("nextFactor", "")>>, "factor")})

IsSecure == h.isTls \/ dsn.pipe

\* What the account's plugin makes of a token
Judges(acct) ==
    CASE acct = "native" /\ h.out \in {"hash", "empty"} -> Verdict
      [] acct = "caching_sha2" /\ h.out \in {"hash", "empty"} ->
            Verdict \cup {Says(<<Packet("more", "fast"), Packet("ok", "")>>, "ready"),
                          Says(<<Packet("more", "full")>>, "password")}
      [] acct = "sha256" /\ h.out = "empty" -> Verdict
      [] acct = "ed25519" /\ h.out = "signature" -> Verdict
      [] acct = "clear" /\ h.out \in {"clear", "clearEmpty"} -> Verdict
      [] acct = "parsec" /\ h.out = "empty" -> {Says(<<Packet("more", w)>>, "password") : w \in {"salt", "badSalt"}}
      [] acct = "parsec" /\ h.out = "signature" -> Verdict
      [] acct \in {"caching_sha2", "sha256"} /\ h.out = "keyRequest" -> {Says(<<Packet("more", "key")>>, "password")}
      [] acct \in {"caching_sha2", "sha256"} /\ h.out = "cipher" -> Verdict
      [] acct \in {"caching_sha2", "sha256"} /\ h.out \in {"clear", "clearEmpty"} /\ IsSecure -> Verdict
      [] OTHER -> {Says(<<Packet("err", "")>>, "closed")}

\* The initial packet: a greeting, or ERR (like too many connections)
ServerGreets ==
    /\ h.sv = "greeting"
    /\ \/ h' = Says(<<Packet("err", "")>>, "closed")
       \/ \E plugin \in AllPlugins \cup {"other"}, offer \in Offers :
             h' = Says(<<[kind |-> "greeting", what |-> plugin, offer |-> offer]>>, "response")
    /\ UNCHANGED dsn

\* The client's response names the plugin it used; the server asks for the
\* plugin of the account if it is another one. It takes the compression from the
\* flags, and zlib if there are both.
ServerAnswers ==
    /\ h.sv = "response" /\ h.out # "no"
    /\ \/ /\ h.out = "sslRequest"
          /\ h' = Says(<<>>, "tls")
       \/ /\ h.out # "sslRequest"
          /\ LET comp == IF "zlib" \in h.caps THEN "zlib" ELSE IF "zstd" \in h.caps THEN "zstd" ELSE "no"
             IN  \/ \E a \in Judges(h.plugin) : h' = [a EXCEPT !.acct = h.plugin, !.svComp = comp]
                 \/ \E acct \in (AllPlugins \cup {"other"}) \ {h.plugin} :
                       h' = [Says(<<Packet("switch", acct)>>, "password") EXCEPT !.acct = acct, !.svComp = comp]
    /\ UNCHANGED dsn

ServerJudges ==
    /\ h.sv = "password" /\ h.out # "no"
    /\ h' \in Judges(h.acct)
    /\ UNCHANGED dsn

ServerExecutes ==
    /\ h.sv = "ready" /\ h.out = "query"
    /\ h' \in {Says(<<Packet(kind, "")>>, "ready") : kind \in {"ok", "err"}}
    /\ UNCHANGED dsn

\* The connection is lost while the client waits for an answer: the stream ends,
\* or the read rejects with another error of the socket, which no one retries.
Disconnects ==
    /\ h.pc \notin {"no", "tls", "done", "thrown"} /\ h.in = <<>>
    /\ h' \in {Says(<<Packet("disconnect", "")>>, "closed"), Throw([h EXCEPT !.sv = "closed"], "fatal")}
    /\ UNCHANGED dsn

-----------------------------------------------------------------------------
\* inst() returns only a connection in which the server let the user in and
\* waits for a command, with no packet left unread, and both sides agree in
\* which format the next packet is (compressed or not, and how). Whichever step
\* throws, #closer is the object that holds the socket by then, so inst() closes it.
ReadyMeansAccepted ==
    /\ h.pc = "done" => h.sv = "ready" /\ h.in = <<>> /\ h.out = "no" /\ h.comp = h.svComp
    /\ h.pc = "thrown" => (h.closer = "tls" <=> h.isTls)

\* The password is sent in clear text only through TLS or a Unix-domain socket,
\* or by the plugin for which allowCleartextPasswords permits it; and the key to
\* encrypt it with is asked of the server only if the DSN permits it.
PasswordGuarded ==
    /\ h.out = "clear" => IsSecure \/ (dsn.clear /\ h.plugin = "clear")
    /\ h.out = "keyRequest" => dsn.key = "retrieve"

=============================================================================
