--------------------------- MODULE ConnectProofs ---------------------------
(***************************************************************************)
(* Theorems about Handshake and Connect, for any DSN, any server that      *)
(* follows the protocol, and any number of callers.                        *)
(***************************************************************************)
EXTENDS Connect, TLAPS

-----------------------------------------------------------------------------
(* The handshake.  At any moment one side has the word, and what it said or *)
(* waits for fits the plugin and its state.                                *)

AuthPcs == {"auth", "auth2", "more", "more2"}
PcSet == AuthPcs \cup {"no", "greeting", "tls", "init", "done", "thrown"}
Tokens == {"hash", "empty", "clear", "clearEmpty", "cipher", "keyRequest", "signature"}
PluginNames == AllPlugins \cup {"other"}

P(kind, what) == <<Packet(kind, what)>>
Greetings == {<<[kind |-> "greeting", what |-> plugin, offer |-> offer]>> : plugin \in PluginNames, offer \in Offers}
FastAndOk == <<Packet("more", "fast"), Packet("ok", "")>>
Inbox == {<<>>, FastAndOk, P("ok", ""), P("err", ""), P("disconnect", ""), P("nextFactor", ""),
          P("more", "full"), P("more", "key"), P("more", "salt"), P("more", "badSalt")}
         \cup {P("switch", plugin) : plugin \in PluginNames} \cup Greetings

Attempt ==
    [pc : PcSet, caps : SUBSET {"ssl", "zlib", "zstd"}, plugin : PluginNames,
     pstate : {"Initial", "Encrypt", "Done"}, isTls : BOOLEAN, closer : {"tcp", "tls"},
     comp : {"no", "zlib", "zstd"}, err : {"no", "refused", "disconnected", "fatal"},
     in : Inbox, out : Tokens \cup {"no", "sslRequest", "query"},
     sv : {"no", "greeting", "response", "tls", "password", "ready", "factor", "closed"},
     acct : PluginNames, svComp : {"no", "zlib", "zstd"}]

\* The tokens that a plugin can have sent when it is in a state
Fits(plugin, pstate, token) ==
    \/ plugin = "native" /\ pstate = "Initial" /\ token \in {"hash", "empty"}
    \/ plugin = "caching_sha2" /\ pstate = "Initial" /\ token \in {"hash", "empty"}
    \/ plugin \in {"caching_sha2", "sha256"} /\ pstate = "Done" /\ token \in {"clear", "clearEmpty", "cipher"}
    \/ plugin = "sha256" /\ pstate = "Done" /\ token = "empty"
    \/ plugin \in {"caching_sha2", "sha256"} /\ pstate = "Encrypt" /\ token = "keyRequest"
    \/ plugin = "clear" /\ pstate = "Initial" /\ token \in {"clear", "clearEmpty"}
    \/ plugin = "ed25519" /\ pstate = "Initial" /\ token = "signature"
    \/ plugin = "parsec" /\ pstate = "Initial" /\ token = "empty"
    \/ plugin = "parsec" /\ pstate = "Done" /\ token = "signature"

\* The client waits for the initial packet.
GreetingTurn(a) ==
    /\ a.pc = "greeting" /\ a.out = "no"
    /\ \/ a.sv = "greeting" /\ a.in = <<>>
       \/ a.sv = "response" /\ a.in \in Greetings
       \/ a.sv = "closed" /\ a.in \in {P("err", ""), P("disconnect", "")}

TlsTurn(a) ==
    /\ a.pc = "tls" /\ a.in = <<>>
    /\ \/ a.sv = "response" /\ a.out = "sslRequest"
       \/ a.sv = "tls" /\ a.out = "no"

\* The client sent a token; the account's plugin is the client's from the first
\* answer on.
TokenTurn(a) ==
    /\ a.pc \in AuthPcs /\ a.in = <<>> /\ a.out \in Tokens
    /\ Fits(a.plugin, a.pstate, a.out)
    /\ \/ a.pc = "auth" /\ a.sv = "response"
       \/ a.pc # "auth" /\ a.sv = "password" /\ a.acct = a.plugin

\* The answers to a token, and what the server waits for then. It asks for more
\* only what the plugin's state expects.
Answer(plugin, pstate, pc, packets, sv) ==
    \/ packets = P("ok", "") /\ sv = "ready" /\ pstate # "Encrypt"
    \/ packets = FastAndOk /\ sv = "ready" /\ plugin = "caching_sha2" /\ pstate = "Initial"
    \/ packets = P("more", "full") /\ sv = "password" /\ plugin = "caching_sha2" /\ pstate = "Initial"
    \/ packets = P("more", "key") /\ sv = "password" /\ plugin \in {"caching_sha2", "sha256"} /\ pstate = "Encrypt"
    \/ packets \in {P("more", "salt"), P("more", "badSalt")} /\ sv = "password" /\ plugin = "parsec" /\ pstate = "Initial"
    \/ /\ packets = P("nextFactor", "") /\ sv = "factor" /\ pstate # "Encrypt"
       /\ pc \in {"auth", "auth2"} \/ "factorAfterMore" \in Allows
    \/ packets \in {P("err", ""), P("disconnect", "")} /\ sv = "closed"

\* The server answered: the account's plugin is the client's from now on, or it
\* asks for this one.
AnswerTurn(a) ==
    /\ a.pc \in AuthPcs /\ a.out = "no"
    /\ \/ Answer(a.plugin, a.pstate, a.pc, a.in, a.sv) /\ (a.sv = "password" => a.acct = a.plugin)
       \/ a.in = P("switch", a.acct) /\ a.sv = "password" /\ a.pc = "auth"

\* What the server is ready for when the client takes itself for authenticated
Ready(a) == a.sv = "ready" \/ (a.sv = "factor" /\ "factorAfterMore" \in Allows)

InitTurn(a) ==
    /\ a.pc = "init"
    /\ \/ a.out = "query" /\ a.in = <<>> /\ Ready(a)
       \/ a.out = "no" /\ a.in \in {P("ok", ""), P("err", "")} /\ a.sv = "ready"
       \/ a.out = "no" /\ a.in = P("disconnect", "") /\ a.sv = "closed"

Rests(a) ==
    /\ a.pc \in {"done", "thrown"} /\ a.in = <<>> /\ a.out = "no"
    /\ a.pc = "done" => Ready(a)
    /\ a.sv # "greeting"

Turn(a) == GreetingTurn(a) \/ TlsTurn(a) \/ TokenTurn(a) \/ AnswerTurn(a) \/ InitTurn(a) \/ Rests(a)

\* Both sides derive the compression from the same flags, of which there is one.
CompOf(caps) == IF "zstd" \in caps THEN "zstd" ELSE IF "zlib" \in caps THEN "zlib" ELSE "no"

Agree(a) ==
    /\ ~({"zlib", "zstd"} \subseteq a.caps)
    /\ a.pc \in AuthPcs /\ a.sv \in {"password", "ready", "factor"} => a.svComp = CompOf(a.caps)
    /\ a.pc \in {"init", "done"} => a.comp = CompOf(a.caps) /\ (a.sv = "ready" => a.svComp = CompOf(a.caps))

\* TLS comes before the first token, if the DSN asks for it.
Guarded(a) ==
    /\ a.pc \in AuthPcs => (dsn.tls => dsn.pipe \/ a.isTls)
    /\ a.out = "clear" => Trusted \/ (dsn.clear /\ a.plugin = "clear")
    /\ a.out = "keyRequest" => dsn.key = "retrieve"
    /\ a.pc \notin {"greeting", "thrown"} => a.plugin \in AllPlugins

Closes(a) ==
    /\ a.closer = "tls" <=> a.isTls
    /\ a.err # "no" <=> a.pc = "thrown"

AttemptInv(a) == a \in Attempt /\ Turn(a) /\ Agree(a) /\ Guarded(a) /\ Closes(a)

\* There is an attempt.
HandshakeInv == dsn \in Dsns /\ AttemptInv(h)

-----------------------------------------------------------------------------
(* Lemmas about the operators of the client.                               *)

\* The packet that is read, and what is left of the inbox.
LEMMA InboxFacts ==
    /\ \A p : Head(<<p>>) = p /\ Tail(<<p>>) = <<>> /\ <<p>> # <<>>
    /\ \A kind, what : LET p == P(kind, what) IN
          Head(p) = Packet(kind, what) /\ Tail(p) = <<>> /\ p # <<>> /\ Head(p).kind = kind /\ Head(p).what = what
    /\ Head(FastAndOk) = Packet("more", "fast") /\ Tail(FastAndOk) = P("ok", "") /\ FastAndOk # <<>>
<1>1. \A p : Head(<<p>>) = p /\ Tail(<<p>>) = <<>> /\ <<p>> # <<>>
  OBVIOUS
<1>2. \A p, q : Head(<<p, q>>) = p /\ Tail(<<p, q>>) = <<q>> /\ <<p, q>> # <<>>
  OBVIOUS
<1>3. \A kind, what : Packet(kind, what).kind = kind /\ Packet(kind, what).what = what
  BY DEF Packet
<1>4. QED
  BY <1>1, <1>2, <1>3 DEF FastAndOk, P

\* The same for an inbox that is known to be one of these.
LEMMA PacketFacts ==
    ASSUME NEW s, NEW kind, NEW what, s = P(kind, what)
    PROVE  s # <<>> /\ Head(s).kind = kind /\ Head(s).what = what
BY InboxFacts

LEMMA FastFacts ==
    ASSUME NEW s, s = FastAndOk
    PROVE  s # <<>> /\ Head(s).kind = "more" /\ Head(s).what = "fast"
<1>1. Head(FastAndOk) = Packet("more", "fast") /\ FastAndOk # <<>>
  BY InboxFacts
<1>2. Packet("more", "fast").kind = "more" /\ Packet("more", "fast").what = "fast"
  BY DEF Packet
<1>3. QED
  BY <1>1, <1>2

\* An inbox with a packet of a kind holds no packet of another one.
LEMMA FastIsNoOther ==
    /\ \A kind, what : kind # "more" => FastAndOk # P(kind, what)
    /\ \A what : what # "fast" => FastAndOk # P("more", what)
BY FastFacts, PacketFacts

\* The inbox can be empty.
LEMMA EmptyInbox == <<>> \in Inbox
BY DEF Inbox

\* The DSN has the fields that the plugins look at.
LEMMA DsnFields ==
    ASSUME dsn \in Dsns
    PROVE  /\ dsn.tls \in BOOLEAN /\ dsn.pipe \in BOOLEAN /\ dsn.pwd \in BOOLEAN
           /\ dsn.clear \in BOOLEAN /\ dsn.initSql \in BOOLEAN /\ dsn.key \in {"no", "pinned", "retrieve"}
           /\ dsn.timeout \in Nat /\ dsn.interval \in Nat
BY HandshakeAssumption DEF DsnType

\* What is sent by a plugin, or thrown instead
TokenOk(plugin, auth) ==
    /\ auth.token \in Tokens \cup {"throw"}
    /\ auth.pstate \in {"Initial", "Encrypt", "Done"}
    /\ auth.token # "throw" => Fits(plugin, auth.pstate, auth.token)
    /\ auth.token = "clear" => Trusted \/ (dsn.clear /\ plugin = "clear")
    /\ auth.token = "keyRequest" => dsn.key = "retrieve"

\* quickAuth() of every plugin: the clear text and the request of the key are
\* sent under their conditions only.
LEMMA QuickAuthOk ==
    ASSUME dsn \in Dsns, NEW plugin \in AllPlugins
    PROVE  TokenOk(plugin, QuickAuth(plugin))
<1> USE DsnFields DEF TokenOk, Tokens, Fits, Auth, QuickAuth, ClearText
<1>1. CASE plugin = "native"
  BY <1>1 DEF NativeQuickAuth
<1>2. CASE plugin = "caching_sha2"
  BY <1>2 DEF CachingSha2QuickAuth
<1>3. CASE plugin = "sha256"
  BY <1>3 DEF Sha256QuickAuth
<1>4. CASE plugin = "clear"
  BY <1>4 DEF ClearQuickAuth
<1>5. CASE plugin = "ed25519"
  BY <1>5 DEF Ed25519QuickAuth
<1>6. CASE plugin = "parsec"
  BY <1>6 DEF ParsecQuickAuth
<1>7. QED
  BY <1>1, <1>2, <1>3, <1>4, <1>5, <1>6 DEF AllPlugins

\* progress() of every plugin, given what the server asks for. The only answer
\* without a token is to "fast", in the end of which the plugin is Done.
LEMMA ProgressOk ==
    ASSUME dsn \in Dsns, NEW plugin \in AllPlugins, NEW pstate \in {"Initial", "Encrypt"}, NEW what,
           pstate = "Encrypt" => plugin \in {"caching_sha2", "sha256"}
    PROVE  LET auth == Progress(plugin, pstate, what) IN
           \/ TokenOk(plugin, auth)
           \/ plugin = "caching_sha2" /\ pstate = "Initial" /\ what = "fast" /\ auth = Auth("no", "Done")
<1> USE DsnFields DEF TokenOk, Tokens, Fits, Auth, Progress, ClearText
<1>1. CASE plugin = "caching_sha2"
  BY <1>1 DEF CachingSha2Progress, CanGetPublicKey
<1>2. CASE plugin = "sha256"
  BY <1>2 DEF Sha256Progress
<1>3. CASE plugin = "parsec"
  BY <1>3 DEF ParsecProgress
<1>4. CASE plugin \in {"native", "clear", "ed25519"}
  BY <1>4
<1>5. QED
  BY <1>1, <1>2, <1>3, <1>4 DEF AllPlugins

\* An attempt that throws is over: nothing is expected or owed, and #closer is
\* what it was.
LEMMA ThrowInv ==
    ASSUME dsn \in Dsns, NEW a \in Attempt, NEW err \in {"refused", "disconnected", "fatal"},
           a.closer = "tls" <=> a.isTls, a.sv # "greeting", ~({"zlib", "zstd"} \subseteq a.caps)
    PROVE  AttemptInv(Throw(a, err))
<1> DEFINE b == Throw(a, err)
<1>1. b \in Attempt
  <2>1. \A e \in Inbox : [a EXCEPT !.pc = "thrown", !.err = err, !.in = e, !.out = "no"] \in Attempt
    BY DEF Attempt, PcSet
  <2>2. QED
    BY <2>1, EmptyInbox DEF Throw
<1>2. /\ b.pc = "thrown" /\ b.err = err /\ b.in = <<>> /\ b.out = "no" /\ b.sv = a.sv
      /\ b.caps = a.caps /\ b.closer = a.closer /\ b.isTls = a.isTls
  BY DEF Attempt, Throw
<1> HIDE DEF b
<1>3. Turn(b)
  BY <1>2 DEF Turn, Rests
<1>4. Agree(b) /\ Guarded(b) /\ Closes(b)
  BY <1>2 DEF Agree, Guarded, Closes, AuthPcs
<1>5. QED
  BY <1>1, <1>3, <1>4 DEF AttemptInv, b

\* A token that fits is sent when the server is waiting for it.
LEMMA SendTokenInv ==
    ASSUME dsn \in Dsns, NEW a \in Attempt, NEW auth, NEW pc \in AuthPcs,
           TokenOk(a.plugin, auth), a.plugin \in AllPlugins, a.in = <<>>, a.err = "no",
           \/ pc = "auth" /\ a.sv = "response"
           \/ pc # "auth" /\ a.sv = "password" /\ a.acct = a.plugin /\ a.svComp = CompOf(a.caps),
           dsn.tls => dsn.pipe \/ a.isTls,
           a.closer = "tls" <=> a.isTls, ~({"zlib", "zstd"} \subseteq a.caps)
    PROVE  AttemptInv(SendToken(a, auth, pc))
<1>1. CASE auth.token = "throw"
  BY <1>1, ThrowInv DEF SendToken
<1>2. CASE auth.token # "throw"
  <2> DEFINE b == [a EXCEPT !.pc = pc, !.pstate = auth.pstate, !.out = auth.token]
  <2>1. b \in Attempt
    BY <1>2 DEF Attempt, TokenOk, PcSet
  <2>2. /\ b.pc = pc /\ b.pstate = auth.pstate /\ b.out = auth.token /\ b.in = <<>> /\ b.sv = a.sv
        /\ b.caps = a.caps /\ b.closer = a.closer /\ b.isTls = a.isTls /\ b.plugin = a.plugin
        /\ b.acct = a.acct /\ b.svComp = a.svComp /\ b.err = "no"
    BY DEF Attempt
  <2>3. SendToken(a, auth, pc) = b
    BY <1>2 DEF SendToken
  <2> HIDE DEF b
  <2>4. Turn(b)
    BY <1>2, <2>2 DEF Turn, TokenTurn, TokenOk
  <2>5. Agree(b) /\ Guarded(b) /\ Closes(b)
    BY <1>2, <2>2 DEF Agree, Guarded, Closes, AuthPcs, TokenOk, Tokens
  <2>6. QED
    BY <2>1, <2>3, <2>4, <2>5 DEF AttemptInv
<1>3. QED
  BY <1>1, <1>2

\* After the last packet of the authentication.
LEMMA AuthenticatedInv ==
    ASSUME dsn \in Dsns, NEW a \in Attempt, a.plugin \in AllPlugins, a.in = <<>>, a.out = "no",
           a.err = "no", Ready(a), a.svComp = CompOf(a.caps),
           a.closer = "tls" <=> a.isTls, ~({"zlib", "zstd"} \subseteq a.caps)
    PROVE  AttemptInv(Authenticated(a))
<1> DEFINE b == Authenticated(a)
<1>1. b \in Attempt
  <2>1. \A c \in {"no", "zlib", "zstd"}, pc \in {"init", "done"}, o \in {"no", "query"} :
            [a EXCEPT !.comp = c, !.pc = pc, !.out = o] \in Attempt
    BY DEF Attempt, PcSet
  <2>2. QED
    BY <2>1 DEF Authenticated
<1>2. /\ b.pc = (IF dsn.initSql THEN "init" ELSE "done") /\ b.out = (IF dsn.initSql THEN "query" ELSE "no")
      /\ b.in = <<>> /\ b.sv = a.sv /\ b.comp = CompOf(a.caps)
      /\ b.caps = a.caps /\ b.closer = a.closer /\ b.isTls = a.isTls /\ b.plugin = a.plugin
      /\ b.svComp = a.svComp /\ b.err = "no"
  BY DEF Attempt, Authenticated, CompOf
<1> HIDE DEF b
<1>3. Turn(b)
  BY <1>2 DEF Turn, InitTurn, Rests, Ready
<1>4. Agree(b) /\ Guarded(b) /\ Closes(b)
  BY <1>2 DEF Agree, Guarded, Closes, AuthPcs
<1>5. QED
  BY <1>1, <1>3, <1>4 DEF AttemptInv, b

-----------------------------------------------------------------------------
(* The steps of the handshake keep HandshakeInv.                           *)

\* Whose turn it is follows from what inst() awaits.
LEMMA TurnOf ==
    ASSUME HandshakeInv
    PROVE  /\ h.pc = "greeting" => GreetingTurn(h)
           /\ h.pc = "tls" => TlsTurn(h)
           /\ h.pc \in AuthPcs => TokenTurn(h) \/ AnswerTurn(h)
           /\ h.pc = "init" => InitTurn(h)
           /\ h.pc \in {"done", "thrown"} => Rests(h)
           /\ h.pc # "no"
BY DEF HandshakeInv, AttemptInv, Turn, GreetingTurn, TlsTurn, TokenTurn, AnswerTurn, InitTurn, Rests, AuthPcs

\* The steps of the handshake leave the DSN alone.
LEMMA SameDsn ==
    ASSUME dsn \in Dsns, dsn' = dsn, AttemptInv(h')
    PROVE  HandshakeInv'
BY DEF HandshakeInv, AttemptInv, Attempt, Turn, GreetingTurn, TlsTurn, TokenTurn, AnswerTurn, InitTurn, Rests, Ready,
       Answer, Agree, Guarded, Closes, Trusted

\* Taking a packet that was the last one changes the inbox only.
LEMMA TakenLast ==
    ASSUME HandshakeInv, NEW p, h.in = <<p>>
    PROVE  /\ Taken \in Attempt /\ Taken.in = <<>>
           /\ Taken.pc = h.pc /\ Taken.caps = h.caps /\ Taken.plugin = h.plugin /\ Taken.pstate = h.pstate
           /\ Taken.isTls = h.isTls /\ Taken.closer = h.closer /\ Taken.err = h.err /\ Taken.out = h.out
           /\ Taken.sv = h.sv /\ Taken.acct = h.acct /\ Taken.svComp = h.svComp
<1>1. h \in Attempt
  BY DEF HandshakeInv, AttemptInv
<1>2. \A e \in Inbox : [h EXCEPT !.in = e] \in Attempt /\ [h EXCEPT !.in = e].in = e
  BY <1>1 DEF Attempt
<1>3. Taken = [h EXCEPT !.in = Tail(h.in)]
  BY DEF Taken
<1>4. Tail(h.in) = <<>>
  BY InboxFacts
<1>5. Taken \in Attempt /\ Taken.in = <<>>
  BY <1>2, <1>3, <1>4, EmptyInbox
<1>6. \A e : LET t == [h EXCEPT !.in = e] IN
           /\ t.pc = h.pc /\ t.caps = h.caps /\ t.plugin = h.plugin /\ t.pstate = h.pstate
           /\ t.isTls = h.isTls /\ t.closer = h.closer /\ t.err = h.err /\ t.out = h.out
           /\ t.sv = h.sv /\ t.acct = h.acct /\ t.svComp = h.svComp
  BY <1>1 DEF Attempt
<1>7. QED
  BY <1>3, <1>5, <1>6

\* inst() throws at any await but that of the greeting's arrival.
LEMMA ThrowsInv ==
    ASSUME HandshakeInv, NEW err \in {"disconnected", "fatal"}, h.sv # "greeting"
    PROVE  AttemptInv(Throw(h, err))
BY ThrowInv DEF HandshakeInv, AttemptInv, Closes, Agree

\* #writeHandshakeResponse(), with the plugin that the server named.
LEMMA WriteResponseInv ==
    ASSUME dsn \in Dsns, NEW a \in Attempt, a.plugin \in AllPlugins, a.in = <<>>, a.err = "no",
           a.sv = "response", dsn.tls => dsn.pipe \/ a.isTls,
           a.closer = "tls" <=> a.isTls, ~({"zlib", "zstd"} \subseteq a.caps)
    PROVE  AttemptInv(WriteHandshakeResponse(a))
<1>1. TokenOk(a.plugin, QuickAuth(a.plugin))
  BY QuickAuthOk
<1>2. QED
  BY <1>1, SendTokenInv DEF WriteHandshakeResponse, AuthPcs

\* #applyClientCapabilities() leaves at most one way of compression.
LEMMA CapabilitiesOk ==
    ASSUME dsn \in Dsns, NEW offer \in Offers
    PROVE  /\ Capabilities(offer) \subseteq {"ssl", "zlib", "zstd"}
           /\ ~({"zlib", "zstd"} \subseteq Capabilities(offer))
<1>1. offer \subseteq {"ssl", "zlib", "zstd"}
  BY HandshakeAssumption
<1>2. dsn.compress \in {"no", "any", "zlib", "zstd"} /\ dsn.zstdLib \in BOOLEAN
  BY HandshakeAssumption DEF DsnType
<1> DEFINE comp == CASE dsn.compress = "no" -> {}
                     [] dsn.compress \in {"any", "zstd"} /\ dsn.zstdLib /\ "zstd" \in offer -> {"zstd"}
                     [] dsn.compress = "zstd" -> {}
                     [] OTHER -> {"zlib"}
<1>3. comp \in {{}, {"zstd"}, {"zlib"}}
  BY <1>2
<1>4. Capabilities(offer) \subseteq offer /\ Capabilities(offer) \subseteq {"ssl"} \cup comp
  BY DEF Capabilities
<1> HIDE DEF comp
<1>5. QED
  BY <1>1, <1>3, <1>4

\* After the initial packet: the response, the request of TLS, or an exception.
LEMMA ReadHandshakeInv ==
    ASSUME HandshakeInv, ReadHandshake
    PROVE  HandshakeInv'
<1>1. GreetingTurn(h) /\ h.in # <<>> /\ dsn \in Dsns /\ dsn' = dsn /\ h \in Attempt
  BY TurnOf DEF ReadHandshake, Reads, HandshakeInv, AttemptInv
<1>2. CASE h.in \in {P("err", ""), P("disconnect", "")}
  <2>1. Head(h.in).kind # "greeting"
    BY <1>2, InboxFacts
  <2>2. h' = Throw(h, "disconnected")
    BY <2>1 DEF ReadHandshake
  <2>3. h.sv # "greeting"
    BY <1>1 DEF GreetingTurn
  <2>4. QED
    BY <1>1, <2>2, <2>3, ThrowsInv, SameDsn
<1>3. CASE h.in \in Greetings /\ h.sv = "response"
  <2>1. PICK plugin \in PluginNames, offer \in Offers : h.in = <<[kind |-> "greeting", what |-> plugin, offer |-> offer]>>
    BY <1>3 DEF Greetings
  <2>2. h' = Greeted(Taken, plugin, offer)
    <3> DEFINE p == [kind |-> "greeting", what |-> plugin, offer |-> offer]
    <3>1. Head(h.in) = p /\ p.kind = "greeting" /\ p.what = plugin /\ p.offer = offer
      BY <2>1, InboxFacts
    <3>2. QED
      BY <3>1 DEF ReadHandshake
  <2> DEFINE a == [Taken EXCEPT !.plugin = plugin, !.caps = Capabilities(offer)]
  <2>3. /\ Taken \in Attempt /\ Taken.in = <<>> /\ Taken.isTls = h.isTls /\ Taken.closer = h.closer
        /\ Taken.err = h.err /\ Taken.out = h.out /\ Taken.sv = h.sv
    BY <2>1, TakenLast
  <2>4. a \in Attempt /\ a.plugin = plugin /\ a.caps = Capabilities(offer)
    BY <2>3, CapabilitiesOk, <1>1 DEF Attempt
  <2>5. /\ a.in = <<>> /\ a.isTls = h.isTls /\ a.closer = h.closer /\ a.err = h.err /\ a.out = "no" /\ a.sv = "response"
    BY <2>3, <1>1, <1>3 DEF Attempt, GreetingTurn
  <2>6. /\ a.closer = "tls" <=> a.isTls
        /\ a.err = "no" /\ ~({"zlib", "zstd"} \subseteq a.caps)
    BY <1>1, <2>4, <2>5, CapabilitiesOk DEF HandshakeInv, AttemptInv, Closes, GreetingTurn
  <2>7. h' = (IF plugin \notin AllPlugins \/ CompressionThrows THEN Throw(a, "fatal")
              ELSE IF ~dsn.tls \/ dsn.pipe THEN WriteHandshakeResponse(a)
              ELSE IF "ssl" \notin a.caps THEN Throw(a, "fatal")
              ELSE [a EXCEPT !.pc = "tls", !.out = "sslRequest"])
    BY <2>2 DEF Greeted
  <2> HIDE DEF a
  <2>8. AttemptInv(Throw(a, "fatal"))
    BY <1>1, <2>4, <2>5, <2>6, ThrowInv
  <2>9. CASE plugin \in AllPlugins /\ (~dsn.tls \/ dsn.pipe)
    <3>1. AttemptInv(WriteHandshakeResponse(a))
      BY <1>1, <2>4, <2>5, <2>6, <2>9, WriteResponseInv
    <3>2. QED
      BY <1>1, <2>7, <2>8, <2>9, <3>1, SameDsn
  <2>10. CASE plugin \in AllPlugins /\ ~(~dsn.tls \/ dsn.pipe)
    <3> DEFINE b == [a EXCEPT !.pc = "tls", !.out = "sslRequest"]
    <3>1. b \in Attempt
      BY <2>4 DEF Attempt, PcSet
    <3>2. /\ b.pc = "tls" /\ b.out = "sslRequest" /\ b.in = <<>> /\ b.sv = "response" /\ b.caps = a.caps
          /\ b.closer = a.closer /\ b.isTls = a.isTls /\ b.err = "no" /\ b.plugin = plugin
      BY <2>4, <2>5, <2>6 DEF Attempt
    <3> HIDE DEF b
    <3>3. AttemptInv(b)
      BY <2>6, <2>10, <3>1, <3>2 DEF AttemptInv, Turn, TlsTurn, Agree, Guarded, Closes, AuthPcs
    <3>4. QED
      BY <1>1, <2>7, <2>8, <2>10, <3>3, SameDsn DEF b
  <2>11. QED
    BY <1>1, <2>7, <2>8, <2>9, <2>10, SameDsn
<1>4. QED
  BY <1>1, <1>2, <1>3 DEF GreetingTurn

\* #upgradeToTls(): the TLS connection is what #closer closes from then on.
LEMMA UpgradeInv ==
    ASSUME HandshakeInv, UpgradeToTls \/ UpgradeFails
    PROVE  HandshakeInv'
<1>1. TlsTurn(h) /\ h.sv = "tls" /\ dsn \in Dsns /\ dsn' = dsn /\ h \in Attempt
  BY TurnOf DEF UpgradeToTls, UpgradeFails, HandshakeInv, AttemptInv
<1>2. /\ h.in = <<>> /\ h.err = "no" /\ h.plugin \in AllPlugins /\ ~({"zlib", "zstd"} \subseteq h.caps)
  BY <1>1 DEF HandshakeInv, AttemptInv, TlsTurn, Closes, Guarded, Agree
<1>3. CASE UpgradeToTls
  <2> DEFINE a == [h EXCEPT !.isTls = TRUE, !.closer = "tls", !.sv = "response"]
  <2>1. /\ a \in Attempt /\ a.plugin = h.plugin /\ a.in = h.in /\ a.err = h.err /\ a.sv = "response"
        /\ a.isTls = TRUE /\ a.closer = "tls" /\ a.caps = h.caps
    BY <1>1 DEF Attempt
  <2>2. h' = WriteHandshakeResponse(a)
    BY <1>3 DEF UpgradeToTls
  <2> HIDE DEF a
  <2>3. AttemptInv(WriteHandshakeResponse(a))
    BY <1>1, <1>2, <2>1, WriteResponseInv
  <2>4. QED
    BY <1>1, <2>2, <2>3, SameDsn
<1>4. CASE UpgradeFails
  <2> DEFINE a == [h EXCEPT !.isTls = TRUE, !.closer = "tls"]
  <2>1. a \in Attempt /\ a.sv = h.sv /\ a.isTls = TRUE /\ a.closer = "tls" /\ a.caps = h.caps
    BY <1>1 DEF Attempt
  <2>2. h' = Throw(h, "fatal") \/ h' = Throw(a, "fatal")
    BY <1>4 DEF UpgradeFails
  <2> HIDE DEF a
  <2>3. AttemptInv(Throw(a, "fatal"))
    BY <1>1, <1>2, <2>1, ThrowInv
  <2>4. h.closer = "tls" <=> h.isTls
    BY DEF HandshakeInv, AttemptInv, Closes
  <2>5. AttemptInv(Throw(h, "fatal"))
    BY <1>1, <1>2, <2>4, ThrowInv
  <2>6. QED
    BY <1>1, <2>2, <2>3, <2>5, SameDsn
<1>5. QED
  BY <1>3, <1>4

\* What an answer of the server is, for the client that reads it.
LEMMA AnswerKinds ==
    ASSUME HandshakeInv, AnswerTurn(h)
    PROVE  /\ dsn \in Dsns /\ h \in Attempt /\ h.plugin \in AllPlugins /\ h.err = "no"
           /\ h.closer = "tls" <=> h.isTls
           /\ ~({"zlib", "zstd"} \subseteq h.caps)
           /\ dsn.tls => dsn.pipe \/ h.isTls
           /\ h.sv \in {"password", "ready", "factor"} => h.svComp = CompOf(h.caps)
           /\ h.sv # "greeting" /\ h.in # <<>>
<1>1. h.in = FastAndOk \/ \E kind, what : h.in = P(kind, what)
  BY DEF AnswerTurn, Answer
<1>2. h.sv # "greeting" /\ h.pc \in AuthPcs
  BY DEF AnswerTurn, Answer
<1>3. h.in # <<>>
  BY <1>1, PacketFacts, FastFacts
<1>4. QED
  BY <1>2, <1>3 DEF HandshakeInv, AttemptInv, Guarded, Closes, Agree, AuthPcs

\* A pass of the loop that answers "more": the token goes to the server that waits
\* for it, or the plugin is done and "ok" is still to be read, or it throws.
LEMMA ProgressedInv ==
    ASSUME HandshakeInv, AnswerTurn(h), NEW pc \in {"more", "more2"}, NEW what,
           \/ h.in = P("more", what) /\ h.sv = "password" /\ h.acct = h.plugin
              /\ h.pstate # "Done" /\ (h.pstate = "Encrypt" => h.plugin \in {"caching_sha2", "sha256"})
              /\ what # "fast"
           \/ h.in = FastAndOk /\ what = "fast" /\ h.sv = "ready" /\ h.pstate = "Initial" /\ h.plugin = "caching_sha2"
    PROVE  AttemptInv(Progressed(Taken, what, pc))
<1>1. CASE h.in = P("more", what) /\ h.sv = "password" /\ h.acct = h.plugin /\ h.pstate # "Done"
           /\ (h.pstate = "Encrypt" => h.plugin \in {"caching_sha2", "sha256"}) /\ what # "fast"
  <2>1. /\ Taken \in Attempt /\ Taken.in = <<>> /\ Taken.caps = h.caps /\ Taken.plugin = h.plugin
        /\ Taken.pstate = h.pstate /\ Taken.isTls = h.isTls /\ Taken.closer = h.closer /\ Taken.err = h.err
        /\ Taken.sv = h.sv /\ Taken.acct = h.acct /\ Taken.svComp = h.svComp
    BY <1>1, TakenLast DEF P
  <2>2. h.pstate \in {"Initial", "Encrypt"}
    BY <1>1, AnswerKinds DEF Attempt
  <2>3. TokenOk(h.plugin, Progress(h.plugin, h.pstate, what))
    BY <1>1, <2>2, AnswerKinds, ProgressOk
  <2>4. Progressed(Taken, what, pc) = SendToken(Taken, Progress(h.plugin, h.pstate, what), pc)
    BY <1>1, <2>1 DEF Progressed
  <2>5. AttemptInv(SendToken(Taken, Progress(h.plugin, h.pstate, what), pc))
    BY <1>1, <2>1, <2>3, AnswerKinds, SendTokenInv DEF AuthPcs
  <2>6. QED
    BY <2>4, <2>5
<1>2. CASE h.in = FastAndOk /\ what = "fast" /\ h.sv = "ready" /\ h.pstate = "Initial" /\ h.plugin = "caching_sha2"
  <2> DEFINE ok == P("ok", "")
             b == [h EXCEPT !.in = ok, !.pc = pc, !.pstate = "Done", !.out = "no"]
  <2>1. Taken = [h EXCEPT !.in = ok] /\ h \in Attempt
    BY <1>2, InboxFacts, AnswerKinds DEF Taken
  <2>2. Progress("caching_sha2", "Initial", "fast") = Auth("no", "Done")
    BY DEF Progress, CachingSha2Progress
  <2>3. ok \in Inbox
    BY DEF Inbox
  <2> HIDE DEF ok
  <2>4. Taken.plugin = h.plugin /\ Taken.pstate = h.pstate
    BY <2>1 DEF Attempt
  <2>5. Progressed(Taken, what, pc) = [Taken EXCEPT !.pc = pc, !.pstate = "Done", !.out = "no"]
    <3> DEFINE auth == Progress(Taken.plugin, Taken.pstate, what)
    <3>1. auth.token = "no" /\ auth.pstate = "Done"
      BY <1>2, <2>2, <2>4 DEF Auth
    <3>2. Progressed(Taken, what, pc) = SendToken(Taken, auth, pc)
      BY <1>2, <2>4 DEF Progressed
    <3> HIDE DEF auth
    <3>3. QED
      BY <3>1, <3>2 DEF SendToken
  <2>6. Progressed(Taken, what, pc) = b
    BY <2>1, <2>5 DEF Attempt
  <2>7. /\ b \in Attempt /\ b.in = ok /\ b.pc = pc /\ b.pstate = "Done" /\ b.out = "no" /\ b.sv = h.sv
        /\ b.caps = h.caps /\ b.plugin = h.plugin /\ b.isTls = h.isTls /\ b.closer = h.closer /\ b.err = h.err
        /\ b.svComp = h.svComp
    BY <2>1, <2>3 DEF Attempt, PcSet, AuthPcs
  <2> HIDE DEF b
  <2>8. Turn(b)
    BY <1>2, <2>7 DEF Turn, AnswerTurn, Answer, AuthPcs, ok
  <2>9. Agree(b) /\ Guarded(b) /\ Closes(b)
    BY <1>2, <2>7, AnswerKinds DEF Agree, Guarded, Closes, AuthPcs
  <2>10. QED
    BY <2>6, <2>7, <2>8, <2>9 DEF AttemptInv
<1>3. QED
  BY <1>1, <1>2

\* The server let the user in (or so the client takes it), and nothing is left to read.
LEMMA LetInInv ==
    ASSUME HandshakeInv, AnswerTurn(h), NEW p, h.in = <<p>>, Ready(h)
    PROVE  AttemptInv(Authenticated(Taken))
<1>1. /\ Taken \in Attempt /\ Taken.in = <<>> /\ Taken.caps = h.caps /\ Taken.plugin = h.plugin
      /\ Taken.out = h.out /\ Taken.isTls = h.isTls /\ Taken.closer = h.closer /\ Taken.err = h.err
      /\ Taken.sv = h.sv /\ Taken.svComp = h.svComp
  BY TakenLast
<1>2. Ready(Taken) /\ h.out = "no" /\ h.sv \in {"ready", "factor"}
  BY <1>1 DEF Ready, AnswerTurn
<1>3. QED
  BY <1>1, <1>2, AnswerKinds, AuthenticatedInv

\* The client reads the first answer in a call of #readAuthResponse().
LEMMA ReadAuthResponseInv ==
    ASSUME HandshakeInv, ReadAuthResponse
    PROVE  HandshakeInv'
<1> DEFINE p == Head(h.in)
           pc == IF h.pc = "auth" THEN "more" ELSE "more2"
<1>1. h.pc \in {"auth", "auth2"} /\ h.in # <<>> /\ dsn' = dsn
  BY DEF ReadAuthResponse, Reads
<1>2. AnswerTurn(h)
  BY <1>1, TurnOf DEF TokenTurn, AuthPcs
<1>3. h' = CASE p.kind = "disconnect" -> Throw(h, "disconnected")
             [] p.kind = "switch" -> Switched(Taken, p.what)
             [] p.kind = "ok" -> Authenticated(Taken)
             [] p.kind = "more" -> Progressed(Taken, p.what, pc)
             [] OTHER -> Throw(h, "fatal")
  BY DEF ReadAuthResponse
<1>4. dsn \in Dsns /\ AttemptInv(Throw(h, "disconnected")) /\ AttemptInv(Throw(h, "fatal"))
  BY <1>2, AnswerKinds, ThrowsInv
<1>5. CASE h.in \in {P("err", ""), P("disconnect", ""), P("nextFactor", "")}
  <2>1. p.kind \in {"err", "disconnect", "nextFactor"}
    BY <1>5, PacketFacts
  <2> HIDE DEF p
  <2>2. h' = Throw(h, "disconnected") \/ h' = Throw(h, "fatal")
    BY <1>3, <2>1
  <2>3. QED
    BY <1>1, <1>4, <2>2, SameDsn
<1>6. CASE h.in = P("ok", "") /\ h.sv = "ready"
  <2>1. p.kind = "ok"
    BY <1>6, InboxFacts
  <2>2. AttemptInv(Authenticated(Taken))
    BY <1>2, <1>6, LetInInv DEF Ready, P
  <2> HIDE DEF p
  <2>3. h' = Authenticated(Taken)
    BY <1>3, <2>1
  <2>4. QED
    BY <1>1, <1>4, <2>2, <2>3, SameDsn
<1>7. ASSUME NEW what, AttemptInv(Progressed(Taken, what, pc)), p.kind = "more", p.what = what
      PROVE  HandshakeInv'
  <2> HIDE DEF p, pc
  <2>1. h' = Progressed(Taken, what, pc)
    BY <1>3, <1>7
  <2>2. QED
    BY <1>1, <1>4, <1>7, <2>1, SameDsn
<1>8. pc \in {"more", "more2"}
  OBVIOUS
<1>9. CASE h.in = FastAndOk /\ Answer(h.plugin, h.pstate, h.pc, h.in, h.sv)
  <2>1. p.kind = "more" /\ p.what = "fast"
    BY <1>9, FastFacts
  <2>2. \A kind, what : kind # "more" => h.in # P(kind, what)
    BY <1>9, FastIsNoOther
  <2>3. h.in # P("more", "full") /\ h.in # P("more", "key") /\ h.in # P("more", "salt") /\ h.in # P("more", "badSalt")
    BY <1>9, FastIsNoOther
  <2>4. h.sv = "ready" /\ h.pstate = "Initial" /\ h.plugin = "caching_sha2"
    BY <1>9, <2>2, <2>3 DEF Answer
  <2> HIDE DEF pc
  <2>5. AttemptInv(Progressed(Taken, "fast", pc))
    BY <1>2, <1>8, <1>9, <2>4, ProgressedInv
  <2>6. QED
    BY <1>7, <2>1, <2>5
<1>10. ASSUME NEW what \in {"full", "key", "salt", "badSalt"}, h.in = P("more", what),
              h.sv = "password", h.acct = h.plugin,
              h.pstate # "Done", h.pstate = "Encrypt" => h.plugin \in {"caching_sha2", "sha256"}
       PROVE  HandshakeInv'
  <2>1. p.kind = "more" /\ p.what = what
    BY <1>10, PacketFacts
  <2> HIDE DEF pc
  <2>2. AttemptInv(Progressed(Taken, what, pc))
    BY <1>2, <1>8, <1>10, ProgressedInv
  <2>3. QED
    BY <1>7, <2>1, <2>2
<1>11. CASE h.in = P("switch", h.acct) /\ h.sv = "password" /\ h.pc = "auth"
  <2>1. p.kind = "switch" /\ p.what = h.acct
    BY <1>11, PacketFacts
  <2> HIDE DEF p
  <2>2. h' = Switched(Taken, h.acct)
    BY <1>3, <2>1
  <2>3. /\ Taken \in Attempt /\ Taken.in = <<>> /\ Taken.pc = h.pc /\ Taken.caps = h.caps
        /\ Taken.isTls = h.isTls /\ Taken.closer = h.closer /\ Taken.err = h.err
        /\ Taken.sv = h.sv /\ Taken.acct = h.acct /\ Taken.svComp = h.svComp
    BY <1>11, TakenLast DEF P
  <2>4. CASE h.acct \notin AllPlugins
    <3>1. AttemptInv(Throw(Taken, "fatal"))
      BY <1>2, <2>3, AnswerKinds, ThrowInv
    <3>2. QED
      BY <1>1, <1>4, <2>2, <2>4, <3>1, SameDsn DEF Switched
  <2>5. CASE h.acct \in AllPlugins
    <3> DEFINE a == [Taken EXCEPT !.plugin = h.acct]
    <3>1. /\ a \in Attempt /\ a.plugin = h.acct /\ a.in = Taken.in /\ a.caps = h.caps
          /\ a.isTls = h.isTls /\ a.closer = h.closer /\ a.err = h.err
          /\ a.sv = h.sv /\ a.acct = h.acct /\ a.svComp = h.svComp
      BY <2>3, <2>5 DEF Attempt, PluginNames
    <3>2. Switched(Taken, h.acct) = SendToken(a, QuickAuth(h.acct), "auth2")
      BY <1>11, <2>3, <2>5 DEF Switched
    <3> HIDE DEF a
    <3>3. TokenOk(h.acct, QuickAuth(h.acct))
      BY <1>4, <2>5, QuickAuthOk
    <3>4. AttemptInv(SendToken(a, QuickAuth(h.acct), "auth2"))
      BY <1>2, <1>4, <1>11, <2>3, <2>5, <3>1, <3>3, AnswerKinds, SendTokenInv DEF AuthPcs
    <3>5. QED
      BY <1>1, <1>4, <2>2, <3>2, <3>4, SameDsn
  <2>6. QED
    BY <2>4, <2>5
<1> HIDE DEF p, pc
<1>12. QED
  BY <1>2, <1>5, <1>6, <1>9, <1>10, <1>11 DEF AnswerTurn, Answer

\* The loop of #readAuthResponse(): in state Done the packet is taken for the end,
\* and only "ok" can come then (or a further factor, where Allows permits it).
LEMMA ReadMoreInv ==
    ASSUME HandshakeInv, ReadMore
    PROVE  HandshakeInv'
<1> DEFINE p == Head(h.in)
<1>1. h.pc \in {"more", "more2"} /\ h.in # <<>> /\ dsn' = dsn
  BY DEF ReadMore, Reads
<1>2. AnswerTurn(h)
  BY <1>1, TurnOf DEF TokenTurn, AuthPcs
<1>3. h' = CASE p.kind = "disconnect" -> Throw(h, "disconnected")
             [] p.kind = "err" -> Throw(h, "fatal")
             [] OTHER -> Progressed(Taken, p.what, h.pc)
  BY DEF ReadMore
<1>4. dsn \in Dsns /\ AttemptInv(Throw(h, "disconnected")) /\ AttemptInv(Throw(h, "fatal"))
  BY <1>2, AnswerKinds, ThrowsInv
<1>5. CASE h.in \in {P("err", ""), P("disconnect", "")}
  <2>1. p.kind \in {"err", "disconnect"}
    BY <1>5, PacketFacts
  <2> HIDE DEF p
  <2>2. h' = Throw(h, "disconnected") \/ h' = Throw(h, "fatal")
    BY <1>3, <2>1
  <2>3. QED
    BY <1>1, <1>4, <2>2, SameDsn
<1>6. ASSUME NEW what, AttemptInv(Progressed(Taken, what, h.pc)), p.kind \in {"more", "ok", "nextFactor"}, p.what = what
      PROVE  HandshakeInv'
  <2> HIDE DEF p
  <2>1. h' = Progressed(Taken, what, h.pc)
    BY <1>3, <1>6
  <2>2. QED
    BY <1>1, <1>4, <1>6, <2>1, SameDsn
<1>7. ASSUME NEW kind \in {"ok", "nextFactor"}, h.in = P(kind, ""), Ready(h), h.pstate # "Encrypt"
      PROVE  HandshakeInv'
  <2>1. p.kind = kind /\ p.what = ""
    BY <1>7, PacketFacts
  <2>2. /\ Taken \in Attempt /\ Taken.plugin = h.plugin /\ Taken.pstate = h.pstate /\ Taken.caps = h.caps
        /\ Taken.isTls = h.isTls /\ Taken.closer = h.closer /\ Taken.sv = h.sv
    BY <1>7, TakenLast DEF P
  <2>3. CASE h.pstate = "Done"
    <3>1. AttemptInv(Authenticated(Taken))
      BY <1>2, <1>7, LetInInv DEF P
    <3>2. QED
      BY <1>6, <1>7, <2>1, <2>2, <2>3, <3>1 DEF Progressed
  <2>4. CASE h.pstate = "Initial"
    <3>1. Progress(h.plugin, "Initial", "") = Auth("throw", "Initial")
      BY DEF Progress, CachingSha2Progress, Sha256Progress, ParsecProgress
    <3>2. Progressed(Taken, "", h.pc) = Throw(Taken, "fatal")
      <4> DEFINE auth == Progress(Taken.plugin, Taken.pstate, "")
      <4>0. auth = Auth("throw", "Initial") /\ Auth("throw", "Initial").token = "throw"
        <5>1. Auth("throw", "Initial").token = "throw"
          BY DEF Auth
        <5>2. QED
          BY <2>2, <2>4, <3>1, <5>1
      <4>1. auth.token = "throw"
        BY <4>0
      <4>2. Progressed(Taken, "", h.pc) = SendToken(Taken, auth, h.pc)
        BY <2>2, <2>4 DEF Progressed
      <4> HIDE DEF auth
      <4>3. QED
        BY <4>1, <4>2 DEF SendToken
    <3>3. AttemptInv(Throw(Taken, "fatal"))
      BY <1>2, <2>2, AnswerKinds, ThrowInv
    <3>4. QED
      BY <1>6, <1>7, <2>1, <3>2, <3>3
  <2>5. QED
    BY <1>2, <1>7, <2>3, <2>4, AnswerKinds DEF Attempt
<1>8. CASE h.in = FastAndOk /\ Answer(h.plugin, h.pstate, h.pc, h.in, h.sv)
  <2>1. p.kind = "more" /\ p.what = "fast"
    BY <1>8, FastFacts
  <2>2. \A kind, what : kind # "more" => h.in # P(kind, what)
    BY <1>8, FastIsNoOther
  <2>3. h.in # P("more", "full") /\ h.in # P("more", "key") /\ h.in # P("more", "salt") /\ h.in # P("more", "badSalt")
    BY <1>8, FastIsNoOther
  <2>4. h.sv = "ready" /\ h.pstate = "Initial" /\ h.plugin = "caching_sha2"
    BY <1>8, <2>2, <2>3 DEF Answer
  <2>5. AttemptInv(Progressed(Taken, "fast", h.pc))
    BY <1>1, <1>2, <1>8, <2>4, ProgressedInv
  <2>6. QED
    BY <1>6, <2>1, <2>5
<1>9. ASSUME NEW what \in {"full", "key", "salt", "badSalt"}, h.in = P("more", what),
             h.sv = "password", h.acct = h.plugin,
             h.pstate # "Done", h.pstate = "Encrypt" => h.plugin \in {"caching_sha2", "sha256"}
      PROVE  HandshakeInv'
  <2>1. p.kind = "more" /\ p.what = what
    BY <1>9, PacketFacts
  <2>2. AttemptInv(Progressed(Taken, what, h.pc))
    BY <1>1, <1>2, <1>9, ProgressedInv
  <2>3. QED
    BY <1>6, <2>1, <2>2
<1> HIDE DEF p
<1>10. QED
  BY <1>1, <1>2, <1>5, <1>7, <1>8, <1>9 DEF AnswerTurn, Answer, Ready

\* The answer to initSql.
LEMMA ReadInitSqlInv ==
    ASSUME HandshakeInv, ReadInitSql
    PROVE  HandshakeInv'
<1>1. InitTurn(h) /\ h.in # <<>> /\ dsn' = dsn /\ h.pc = "init"
  BY TurnOf DEF ReadInitSql, Reads
<1>2. /\ dsn \in Dsns /\ h \in Attempt /\ h.plugin \in AllPlugins /\ h.err = "no"
      /\ h.closer = "tls" <=> h.isTls
      /\ ~({"zlib", "zstd"} \subseteq h.caps) /\ h.comp = CompOf(h.caps)
      /\ h.sv = "ready" => h.svComp = CompOf(h.caps)
      /\ h.sv # "greeting"
  BY <1>1 DEF HandshakeInv, AttemptInv, InitTurn, Guarded, Closes, Agree, Ready
<1>3. AttemptInv(Throw(h, "disconnected")) /\ AttemptInv(Throw(h, "fatal"))
  BY <1>2, ThrowsInv
<1>4. CASE h.in \in {P("err", ""), P("disconnect", "")}
  <2>1. Head(h.in).kind \in {"err", "disconnect"}
    BY <1>4, InboxFacts
  <2>2. h' = Throw(h, "disconnected") \/ h' = Throw(h, "fatal")
    BY <2>1 DEF ReadInitSql
  <2>3. QED
    BY <1>1, <1>2, <1>3, <2>2, SameDsn
<1>5. CASE h.in = P("ok", "") /\ h.sv = "ready" /\ h.out = "no"
  <2> DEFINE b == [Taken EXCEPT !.pc = "done"]
  <2>1. Head(h.in).kind = "ok"
    BY <1>5, PacketFacts
  <2>2. h' = b
    BY <2>1 DEF ReadInitSql
  <2>3. /\ Taken \in Attempt /\ Taken.in = <<>> /\ Taken.caps = h.caps /\ Taken.plugin = h.plugin
        /\ Taken.out = h.out /\ Taken.isTls = h.isTls /\ Taken.closer = h.closer /\ Taken.err = h.err
        /\ Taken.sv = h.sv /\ Taken.svComp = h.svComp
    BY <1>5, TakenLast DEF P
  <2>4. Taken.comp = h.comp
    BY <1>2 DEF Attempt, Taken
  <2>5. /\ b \in Attempt /\ b.pc = "done" /\ b.in = Taken.in /\ b.caps = h.caps /\ b.plugin = h.plugin
        /\ b.out = "no" /\ b.isTls = h.isTls /\ b.closer = h.closer /\ b.err = h.err
        /\ b.sv = "ready" /\ b.svComp = h.svComp /\ b.comp = h.comp
    BY <1>5, <2>3, <2>4 DEF Attempt, PcSet
  <2> HIDE DEF b
  <2>6. Turn(b)
    BY <2>3, <2>5 DEF Turn, Rests, Ready
  <2>7. Agree(b) /\ Guarded(b) /\ Closes(b)
    BY <1>2, <1>5, <2>5 DEF Agree, Guarded, Closes, AuthPcs
  <2>8. QED
    BY <1>1, <1>2, <2>2, <2>5, <2>6, <2>7, SameDsn DEF AttemptInv
<1>6. QED
  BY <1>1, <1>4, <1>5 DEF InitTurn

-----------------------------------------------------------------------------
(* The server.                                                             *)

\* What the server says changes only what is on the way, and what it waits for.
LEMMA SaysFields ==
    ASSUME HandshakeInv, NEW packets \in Inbox,
           NEW sv \in {"tls", "response", "password", "ready", "factor", "closed"}
    PROVE  LET a == Says(packets, sv) IN
           /\ a \in Attempt /\ a.in = packets /\ a.out = "no" /\ a.sv = sv
           /\ a.pc = h.pc /\ a.caps = h.caps /\ a.plugin = h.plugin /\ a.pstate = h.pstate /\ a.comp = h.comp
           /\ a.isTls = h.isTls /\ a.closer = h.closer /\ a.err = h.err /\ a.acct = h.acct /\ a.svComp = h.svComp
<1>1. h \in Attempt
  BY DEF HandshakeInv, AttemptInv
<1>2. QED
  BY <1>1 DEF Says, Attempt

\* Both sides of an attempt, and the parts of the invariant that do not depend on
\* whose turn it is.
LEMMA SaysInv ==
    ASSUME HandshakeInv, NEW a \in Attempt, a.out = "no", Turn(a), a.pc = h.pc,
           a.caps = h.caps, a.plugin = h.plugin, a.comp = h.comp,
           a.isTls = h.isTls, a.closer = h.closer, a.err = h.err,
           \/ a.svComp = CompOf(a.caps)
           \/ a.svComp = h.svComp /\ (a.sv \in {"password", "ready", "factor"} => h.sv \in {"password", "ready", "factor"})
              /\ (a.sv = "ready" /\ a.pc \in {"init", "done"} => h.sv = "ready")
    PROVE  AttemptInv(a)
<1>1. Agree(h) /\ Guarded(h) /\ Closes(h) /\ dsn \in Dsns
  BY DEF HandshakeInv, AttemptInv
<1>2. Agree(a)
  BY <1>1 DEF Agree
<1>3. Guarded(a) /\ Closes(a)
  BY <1>1 DEF Guarded, Closes
<1>4. QED
  BY <1>2, <1>3 DEF AttemptInv

\* The inbox can hold any answer.
LEMMA InboxHas ==
    /\ P("ok", "") \in Inbox /\ P("err", "") \in Inbox /\ P("disconnect", "") \in Inbox
    /\ P("nextFactor", "") \in Inbox /\ FastAndOk \in Inbox
    /\ \A what \in {"full", "key", "salt", "badSalt"} : P("more", what) \in Inbox
    /\ \A plugin \in PluginNames : P("switch", plugin) \in Inbox
    /\ Greetings \subseteq Inbox
BY DEF Inbox

\* Every answer to a token is one of those that the client is prepared for.
LEMMA JudgesOk ==
    ASSUME HandshakeInv, TokenTurn(h), NEW a \in Judges(h.plugin)
    PROVE  \E packets \in Inbox, sv \in {"password", "ready", "factor", "closed"} :
              a = Says(packets, sv) /\ Answer(h.plugin, h.pstate, h.pc, packets, sv)
<1> DEFINE Good(x) == \E packets \in Inbox, sv \in {"password", "ready", "factor", "closed"} :
                          x = Says(packets, sv) /\ Answer(h.plugin, h.pstate, h.pc, packets, sv)
<1>0. h.plugin \in AllPlugins /\ Fits(h.plugin, h.pstate, h.out) /\ h.pc \in AuthPcs
  BY DEF HandshakeInv, AttemptInv, Guarded, TokenTurn, AuthPcs
<1>1. Good(Says(P("err", ""), "closed"))
  BY InboxHas DEF Answer
<1>2. ASSUME h.pstate # "Encrypt"
      PROVE  \A x \in Verdict : Good(x)
  <2>1. Good(Says(P("ok", ""), "ready"))
    BY <1>2, InboxHas DEF Answer
  <2>2. ASSUME ~(h.pc \in {"more", "more2"} /\ "factorAfterMore" \notin Allows)
        PROVE  Good(Says(P("nextFactor", ""), "factor"))
    BY <1>0, <1>2, <2>2, InboxHas DEF Answer, AuthPcs
  <2> HIDE DEF Good
  <2>3. QED
    BY <1>1, <2>1, <2>2 DEF Verdict, P
<1>3. ASSUME h.plugin = "caching_sha2", h.pstate = "Initial"
      PROVE  Good(Says(FastAndOk, "ready")) /\ Good(Says(P("more", "full"), "password"))
  BY <1>3, InboxHas DEF Answer
<1>4. ASSUME h.plugin = "parsec", h.pstate = "Initial"
      PROVE  Good(Says(P("more", "salt"), "password")) /\ Good(Says(P("more", "badSalt"), "password"))
  BY <1>4, InboxHas DEF Answer
<1>5. ASSUME h.plugin \in {"caching_sha2", "sha256"}, h.pstate = "Encrypt"
      PROVE  Good(Says(P("more", "key"), "password"))
  BY <1>5, InboxHas DEF Answer
<1> SUFFICES Good(a)
  OBVIOUS
<1> HIDE DEF Good
<1> DEFINE Refusal == {Says(P("err", ""), "closed")}
<1>6. CASE h.plugin = "native"
  <2>1. Judges("native") \in {Verdict, Refusal}
    BY DEF Judges, P
  <2>2. QED
    BY <1>0, <1>1, <1>2, <1>6, <2>1 DEF Fits
<1>7. CASE h.plugin = "caching_sha2"
  <2>1. h.out = "keyRequest" => Judges("caching_sha2") = {Says(P("more", "key"), "password")}
    BY DEF Judges, P
  <2>2. h.out \in {"hash", "empty"} =>
          Judges("caching_sha2") = Verdict \cup {Says(FastAndOk, "ready"), Says(P("more", "full"), "password")}
    BY DEF Judges, P, FastAndOk
  <2>3. h.out \in {"clear", "clearEmpty", "cipher"} => Judges("caching_sha2") \in {Verdict, Refusal}
    BY DEF Judges, P
  <2>4. h.out = "empty" /\ h.pstate = "Done" => FALSE
    BY <1>0, <1>7 DEF Fits
  <2>5. QED
    BY <1>0, <1>1, <1>2, <1>3, <1>5, <1>7, <2>1, <2>2, <2>3, <2>4 DEF Fits
<1>8. CASE h.plugin = "sha256"
  <2>1. h.out = "keyRequest" => Judges("sha256") = {Says(P("more", "key"), "password")}
    BY DEF Judges, P
  <2>2. h.out # "keyRequest" => Judges("sha256") \in {Verdict, Refusal}
    BY DEF Judges, P
  <2>3. QED
    BY <1>0, <1>1, <1>2, <1>5, <1>8, <2>1, <2>2 DEF Fits
<1>9. CASE h.plugin = "clear"
  <2>1. Judges("clear") \in {Verdict, Refusal}
    BY DEF Judges, P
  <2>2. QED
    BY <1>0, <1>1, <1>2, <1>9, <2>1 DEF Fits
<1>10. CASE h.plugin = "ed25519"
  <2>1. Judges("ed25519") \in {Verdict, Refusal}
    BY DEF Judges, P
  <2>2. QED
    BY <1>0, <1>1, <1>2, <1>10, <2>1 DEF Fits
<1>11. CASE h.plugin = "parsec"
  <2>1. h.out = "empty" => Judges("parsec") = {Says(P("more", w), "password") : w \in {"salt", "badSalt"}}
    BY DEF Judges, P
  <2>2. h.out = "signature" => Judges("parsec") = Verdict
    BY DEF Judges, P
  <2>3. QED
    BY <1>0, <1>1, <1>2, <1>4, <1>11, <2>1, <2>2 DEF Fits
<1>12. QED
  BY <1>0, <1>6, <1>7, <1>8, <1>9, <1>10, <1>11 DEF AllPlugins

\* The initial packet.
LEMMA ServerGreetsInv ==
    ASSUME HandshakeInv, ServerGreets
    PROVE  HandshakeInv'
<1>1. h.sv = "greeting" /\ dsn' = dsn /\ dsn \in Dsns
  BY DEF ServerGreets, HandshakeInv
<1>2. h.pc = "greeting"
  BY <1>1 DEF HandshakeInv, AttemptInv, Turn, TlsTurn, TokenTurn, AnswerTurn, Answer, InitTurn, Rests, GreetingTurn, Ready
<1>3. ASSUME NEW packets \in Inbox, NEW sv \in {"response", "closed"}, h' = Says(packets, sv),
             \/ sv = "response" /\ packets \in Greetings
             \/ sv = "closed" /\ packets = P("err", "")
      PROVE  HandshakeInv'
  <2> DEFINE a == Says(packets, sv)
  <2>1. /\ a \in Attempt /\ a.in = packets /\ a.out = "no" /\ a.sv = sv
        /\ a.pc = h.pc /\ a.caps = h.caps /\ a.plugin = h.plugin /\ a.comp = h.comp
        /\ a.isTls = h.isTls /\ a.closer = h.closer /\ a.err = h.err /\ a.svComp = h.svComp
    BY SaysFields
  <2> HIDE DEF a
  <2>2. Turn(a)
    BY <1>2, <1>3, <2>1 DEF Turn, GreetingTurn
  <2>3. AttemptInv(a)
    BY <1>2, <1>3, <2>1, <2>2, SaysInv
  <2>4. QED
    BY <1>1, <1>3, <2>3, SameDsn DEF a
<1>4. CASE h' = Says(P("err", ""), "closed")
  BY <1>3, <1>4, InboxHas
<1>5. CASE \E g \in Greetings : h' = Says(g, "response")
  BY <1>3, <1>5, InboxHas
<1>6. ASSUME NEW plugin \in AllPlugins \cup {"other"}, NEW offer \in Offers,
             h' = Says(<<[kind |-> "greeting", what |-> plugin, offer |-> offer]>>, "response")
      PROVE  HandshakeInv'
  <2>1. <<[kind |-> "greeting", what |-> plugin, offer |-> offer]>> \in Greetings
    BY DEF Greetings, PluginNames
  <2>2. QED
    BY <1>5, <1>6, <2>1
<1>7. QED
  BY <1>4, <1>6 DEF ServerGreets, P

\* The first answer of the server to a response: it goes over to TLS, judges the token,
\* or asks for the plugin of the account.
LEMMA ServerAnswersInv ==
    ASSUME HandshakeInv, ServerAnswers
    PROVE  HandshakeInv'
<1>1. h.sv = "response" /\ h.out # "no" /\ dsn' = dsn /\ dsn \in Dsns
  BY DEF ServerAnswers, HandshakeInv
<1>2. TlsTurn(h) \/ (TokenTurn(h) /\ h.pc = "auth")
  BY <1>1 DEF HandshakeInv, AttemptInv, Turn, TlsTurn, TokenTurn, AnswerTurn, Answer, InitTurn, Rests, GreetingTurn, Ready
<1>3. CASE h.out = "sslRequest"
  <2> DEFINE a == Says(<<>>, "tls")
  <2>1. h' = a
    BY <1>3 DEF ServerAnswers
  <2>2. /\ a \in Attempt /\ a.in = <<>> /\ a.out = "no" /\ a.sv = "tls"
        /\ a.pc = h.pc /\ a.caps = h.caps /\ a.plugin = h.plugin /\ a.comp = h.comp
        /\ a.isTls = h.isTls /\ a.closer = h.closer /\ a.err = h.err /\ a.svComp = h.svComp
    BY SaysFields, EmptyInbox
  <2> HIDE DEF a
  <2>3. h.pc = "tls"
    BY <1>2, <1>3 DEF TokenTurn, TlsTurn, Tokens
  <2>4. Turn(a)
    BY <2>2, <2>3 DEF Turn, TlsTurn
  <2>5. AttemptInv(a)
    BY <2>2, <2>3, <2>4, SaysInv
  <2>6. QED
    BY <1>1, <2>1, <2>5, SameDsn
<1>4. CASE h.out # "sslRequest"
  <2> DEFINE comp == IF "zlib" \in h.caps THEN "zlib" ELSE IF "zstd" \in h.caps THEN "zstd" ELSE "no"
  <2>1. TokenTurn(h) /\ h.pc = "auth" /\ h.plugin \in AllPlugins
    BY <1>1, <1>2, <1>4 DEF TlsTurn, HandshakeInv, AttemptInv, Guarded
  <2>2. comp = CompOf(h.caps)
    BY DEF CompOf, HandshakeInv, AttemptInv, Agree
  <2>3. ASSUME NEW packets \in Inbox, NEW sv \in {"password", "ready", "factor", "closed"}, NEW acct \in PluginNames,
               \/ Answer(h.plugin, h.pstate, h.pc, packets, sv) /\ acct = h.plugin
               \/ packets = P("switch", acct) /\ sv = "password",
               h' = [Says(packets, sv) EXCEPT !.acct = acct, !.svComp = comp]
        PROVE  HandshakeInv'
    <3> DEFINE b == Says(packets, sv)
               a == [b EXCEPT !.acct = acct, !.svComp = comp]
    <3>1. /\ b \in Attempt /\ b.in = packets /\ b.out = "no" /\ b.sv = sv /\ b.pstate = h.pstate
          /\ b.pc = h.pc /\ b.caps = h.caps /\ b.plugin = h.plugin /\ b.comp = h.comp
          /\ b.isTls = h.isTls /\ b.closer = h.closer /\ b.err = h.err
      BY SaysFields
    <3>2. comp \in {"no", "zlib", "zstd"}
      OBVIOUS
    <3> HIDE DEF b, comp
    <3>3. /\ a \in Attempt /\ a.in = packets /\ a.out = "no" /\ a.sv = sv /\ a.pstate = h.pstate
          /\ a.pc = h.pc /\ a.caps = h.caps /\ a.plugin = h.plugin /\ a.comp = h.comp
          /\ a.isTls = h.isTls /\ a.closer = h.closer /\ a.err = h.err /\ a.svComp = comp /\ a.acct = acct
      BY <3>1, <3>2 DEF Attempt
    <3>4. h' = a
      BY <2>3 DEF b
    <3> HIDE DEF a
    <3>5. Turn(a)
      BY <2>1, <2>3, <3>3 DEF Turn, AnswerTurn, TokenTurn
    <3>6. AttemptInv(a)
      BY <2>2, <3>3, <3>5, SaysInv
    <3>7. QED
      BY <1>1, <3>4, <3>6, SameDsn
  <2>4. CASE \E a \in Judges(h.plugin) : h' = [a EXCEPT !.acct = h.plugin, !.svComp = comp]
    <3>1. PICK a \in Judges(h.plugin) : h' = [a EXCEPT !.acct = h.plugin, !.svComp = comp]
      BY <2>4
    <3>2. PICK packets \in Inbox, sv \in {"password", "ready", "factor", "closed"} :
             a = Says(packets, sv) /\ Answer(h.plugin, h.pstate, h.pc, packets, sv)
      BY <2>1, JudgesOk
    <3> HIDE DEF comp
    <3>3. QED
      BY <2>1, <2>3, <3>1, <3>2 DEF PluginNames
  <2>5. CASE \E acct \in (AllPlugins \cup {"other"}) \ {h.plugin} :
                h' = [Says(<<Packet("switch", acct)>>, "password") EXCEPT !.acct = acct, !.svComp = comp]
    <3> HIDE DEF comp
    <3>1. QED
      BY <2>3, <2>5, InboxHas DEF PluginNames, P
  <2>6. QED
    BY <1>4, <2>4, <2>5 DEF ServerAnswers
<1>5. QED
  BY <1>3, <1>4

\* The server judges a later token.
LEMMA ServerJudgesInv ==
    ASSUME HandshakeInv, ServerJudges
    PROVE  HandshakeInv'
<1>1. h.sv = "password" /\ h.out # "no" /\ dsn' = dsn /\ dsn \in Dsns
  BY DEF ServerJudges, HandshakeInv
<1>2. TokenTurn(h) /\ h.acct = h.plugin
  BY <1>1 DEF HandshakeInv, AttemptInv, Turn, TlsTurn, TokenTurn, AnswerTurn, Answer, InitTurn, Rests, GreetingTurn, Ready
<1>3. PICK packets \in Inbox, sv \in {"password", "ready", "factor", "closed"} :
         h' = Says(packets, sv) /\ Answer(h.plugin, h.pstate, h.pc, packets, sv)
  BY <1>2, JudgesOk DEF ServerJudges
<1> DEFINE a == Says(packets, sv)
<1>4. /\ a \in Attempt /\ a.in = packets /\ a.out = "no" /\ a.sv = sv /\ a.pstate = h.pstate
      /\ a.pc = h.pc /\ a.caps = h.caps /\ a.plugin = h.plugin /\ a.comp = h.comp /\ a.acct = h.acct
      /\ a.isTls = h.isTls /\ a.closer = h.closer /\ a.err = h.err /\ a.svComp = h.svComp
  BY SaysFields
<1> HIDE DEF a
<1>5. Turn(a)
  BY <1>2, <1>3, <1>4 DEF Turn, AnswerTurn, TokenTurn
<1>6. h.pc \in AuthPcs
  BY <1>2 DEF TokenTurn
<1>7. AttemptInv(a)
  BY <1>1, <1>4, <1>5, <1>6, SaysInv DEF AuthPcs
<1>8. QED
  BY <1>1, <1>3, <1>7, SameDsn DEF a

\* initSql is executed, or the connection is lost.
LEMMA ServerEndsInv ==
    ASSUME HandshakeInv, ServerExecutes \/ Disconnects
    PROVE  HandshakeInv'
<1>1. dsn' = dsn /\ dsn \in Dsns
  BY DEF ServerExecutes, Disconnects, HandshakeInv
<1>2. ASSUME NEW packets \in Inbox, NEW sv \in {"ready", "closed"}, h' = Says(packets, sv),
             \/ sv = "ready" /\ h.pc = "init" /\ h.sv = "ready" /\ packets \in {P("ok", ""), P("err", "")}
             \/ sv = "closed" /\ h.pc \in AuthPcs \cup {"greeting", "init"} /\ packets = P("disconnect", "")
      PROVE  HandshakeInv'
  <2> DEFINE a == Says(packets, sv)
  <2>1. /\ a \in Attempt /\ a.in = packets /\ a.out = "no" /\ a.sv = sv
        /\ a.pc = h.pc /\ a.caps = h.caps /\ a.plugin = h.plugin /\ a.comp = h.comp
        /\ a.isTls = h.isTls /\ a.closer = h.closer /\ a.err = h.err /\ a.svComp = h.svComp
    BY SaysFields
  <2> HIDE DEF a
  <2>2. Turn(a)
    BY <1>2, <2>1 DEF Turn, GreetingTurn, InitTurn, AnswerTurn, Answer
  <2>3. AttemptInv(a)
    BY <1>2, <2>1, <2>2, SaysInv
  <2>4. QED
    BY <1>1, <1>2, <2>3, SameDsn DEF a
<1>3. CASE ServerExecutes
  <2>1. h.pc = "init" /\ h.sv = "ready"
    BY <1>3 DEF ServerExecutes, HandshakeInv, AttemptInv, Turn, TlsTurn, TokenTurn, AnswerTurn, Answer, InitTurn,
                Rests, GreetingTurn, Tokens
  <2>2. h' \in {Says(P("ok", ""), "ready"), Says(P("err", ""), "ready")}
    BY <1>3 DEF ServerExecutes, P
  <2>3. QED
    BY <1>2, <2>1, <2>2, InboxHas
<1>4. CASE Disconnects
  <2> DEFINE a == [h EXCEPT !.sv = "closed"]
  <2>1. /\ h.pc \in AuthPcs \cup {"greeting", "init"} /\ h \in Attempt
        /\ h' = Says(P("disconnect", ""), "closed") \/ h' = Throw(a, "fatal")
    BY <1>4 DEF Disconnects, HandshakeInv, AttemptInv, Attempt, PcSet, P
  <2>2. CASE h' = Says(P("disconnect", ""), "closed")
    BY <1>2, <2>1, <2>2, InboxHas
  <2>3. CASE h' = Throw(a, "fatal")
    <3>1. a \in Attempt /\ a.sv = "closed" /\ a.isTls = h.isTls /\ a.closer = h.closer /\ a.caps = h.caps
      BY <2>1 DEF Attempt
    <3>2. (h.closer = "tls" <=> h.isTls) /\ ~({"zlib", "zstd"} \subseteq h.caps)
      BY DEF HandshakeInv, AttemptInv, Closes, Agree
    <3> HIDE DEF a
    <3>3. AttemptInv(Throw(a, "fatal"))
      BY <1>1, <3>1, <3>2, ThrowInv
    <3>4. QED
      BY <1>1, <2>3, <3>3, SameDsn
  <2>4. QED
    BY <2>1, <2>2, <2>3
<1>5. QED
  BY <1>3, <1>4

-----------------------------------------------------------------------------
(* The callers.                                                            *)

CallType ==
    [pc : {"no", "connecting", "shaking", "retrying", "waiting"}, since : Nat, till : Nat, due : Nat,
     on : Callers \cup {NoCaller}]

HealthType == [data : [0 .. Track - 1 -> Int], i : 0 .. Track - 1, iSec : Int]

CallersTyped ==
    /\ call \in [Callers -> CallType]
    /\ \A c \in Callers : call[c].since <= now
    /\ now \in 0 .. MaxTime /\ calls \in 0 .. MaxCalls /\ conns \in 0 .. MaxConns
    /\ map \in Callers \cup {NoCaller} /\ who \in Callers \cup {NoCaller}

\* The attempt of `who` is the one that runs.
Shakes ==
    /\ \A c \in Callers : call[c].pc = "shaking" <=> who = c
    /\ IF who = NoCaller THEN h = NoAttempt ELSE AttemptInv(h)

\* A timer is not overdue, and does not go beyond connectTill.
TimersInTime ==
    \A c \in Callers : /\ call[c].pc = "retrying" => now <= call[c].due /\ call[c].due <= call[c].till
                       /\ call[c].pc = "waiting" => now <= call[c].till

HealthOk == health \in HealthType /\ health.iSec <= now

ConnectInv == dsn \in Dsns /\ CallersTyped /\ Shakes /\ OneRetrier /\ TimersInTime /\ HealthOk

Quiet == UNCHANGED <<now, call, who, map, health, calls, conns, logged>>

\* An attempt that is not touched stays what it was.
LEMMA AttemptKept ==
    ASSUME dsn \in Dsns, UNCHANGED <<dsn, h>>, AttemptInv(h)
    PROVE  AttemptInv(h)'
BY SameDsn DEF HandshakeInv

\* Only the handshake is going on: it neither begins nor ends an attempt.
LEMMA HandshakeSteps ==
    ASSUME ConnectInv,
           \/ ReadHandshake \/ UpgradeToTls \/ UpgradeFails \/ ReadAuthResponse \/ ReadMore \/ ReadInitSql
           \/ ServerGreets \/ ServerAnswers \/ ServerJudges \/ ServerExecutes \/ Disconnects,
           Quiet
    PROVE  ConnectInv'
<1>1. who # NoCaller
  <2>1. NoAttempt.pc = "no" /\ NoAttempt.sv = "no" /\ NoAttempt.out = "no"
    BY DEF NoAttempt
  <2>2. QED
    BY <2>1 DEF ConnectInv, Shakes, ReadHandshake, UpgradeToTls, UpgradeFails, ReadAuthResponse, ReadMore, ReadInitSql,
       ServerGreets, ServerAnswers, ServerJudges, ServerExecutes, Disconnects, Reads
<1>2. HandshakeInv
  BY <1>1 DEF ConnectInv, Shakes, HandshakeInv
<1>3. HandshakeInv'
  BY <1>2, ReadHandshakeInv, UpgradeInv, ReadAuthResponseInv, ReadMoreInv, ReadInitSqlInv,
     ServerGreetsInv, ServerAnswersInv, ServerJudgesInv, ServerEndsInv
<1>4. QED
  BY <1>1, <1>3 DEF ConnectInv, HandshakeInv, Quiet, CallersTyped, Shakes, OneRetrier, TimersInTime, HealthOk

-----------------------------------------------------------------------------
(* The steps of newConn().                                                 *)

\* What is true of a call that is not made.
LEMMA NewCallType == NewCall \in CallType /\ NewCall.pc = "no" /\ NewCall.since = 0
BY DEF NewCall, CallType

\* An attempt begins, at Deno.connect() or with its failure.
LEMMA AcceptedInv ==
    ASSUME dsn \in Dsns
    PROVE  AttemptInv(Accepted) /\ AttemptInv(Throw(NoAttempt, "refused")) /\ AttemptInv(Throw(NoAttempt, "fatal"))
<1>1. NoAttempt \in Attempt
  BY EmptyInbox DEF NoAttempt, Attempt, PcSet, PluginNames, AllPlugins
<1>2. /\ NoAttempt.closer = "tcp" /\ NoAttempt.isTls = FALSE /\ NoAttempt.sv = "no" /\ NoAttempt.caps = {}
      /\ NoAttempt.in = <<>> /\ NoAttempt.out = "no" /\ NoAttempt.err = "no"
  BY DEF NoAttempt
<1>3. AttemptInv(Throw(NoAttempt, "refused")) /\ AttemptInv(Throw(NoAttempt, "fatal"))
  BY <1>1, <1>2, ThrowInv
<1> DEFINE a == [NoAttempt EXCEPT !.pc = "greeting", !.sv = "greeting"]
<1> HIDE DEF NoAttempt
<1>4. /\ a \in Attempt /\ a.pc = "greeting" /\ a.sv = "greeting" /\ a.in = NoAttempt.in /\ a.out = NoAttempt.out
      /\ a.caps = NoAttempt.caps /\ a.closer = NoAttempt.closer /\ a.isTls = NoAttempt.isTls /\ a.err = NoAttempt.err
  BY <1>1 DEF Attempt, PcSet
<1> HIDE DEF a
<1>5. AttemptInv(a)
  BY <1>2, <1>4 DEF AttemptInv, Turn, GreetingTurn, Agree, Guarded, Closes, AuthPcs
<1>6. QED
  BY <1>3, <1>5 DEF Accepted, a

\* HealthStatus.log() keeps its ring of cells, and the time of the last record
\* does not pass the clock.
LEMMA LogOk ==
    ASSUME HealthOk, now \in Nat, NEW sec \in Nat, sec <= now, NEW ok \in BOOLEAN
    PROVE  Log(ok, sec) \in HealthType /\ Log(ok, sec).iSec <= now
<1> DEFINE diff == sec - health.iSec
           i == IF diff >= Track THEN health.i ELSE (health.i + diff) % Track
           cleared == IF diff >= Track THEN DOMAIN health.data ELSE {(health.i + k) % Track : k \in 1 .. diff}
           data == [j \in DOMAIN health.data |-> IF j \in cleared THEN 0 ELSE health.data[j]]
<1>1. Track \in Nat \ {0} /\ Lim \in Nat /\ health \in HealthType
  BY ConnectAssumption DEF HealthOk
<1>2. data \in [0 .. Track - 1 -> Int]
  BY <1>1 DEF HealthType
<1>3. diff \in Int /\ i \in 0 .. Track - 1
  <2>1. diff \in Int /\ health.i \in 0 .. Track - 1
    BY <1>1 DEF HealthType
  <2>2. \A x \in Int : x % Track \in 0 .. Track - 1
    BY <1>1
  <2>3. QED
    BY <2>1, <2>2, <1>1
<1>4. \A v \in Int : Counted(v, ok) \in Int
  <2>1. Lim \in Nat \ {0}
    BY ConnectAssumption
  <2>2. \A v \in Int : (v + 1) % (Lim * Lim) \in Int /\ (v + Lim) % (Lim * Lim) \in Int
    <3>1. Lim * Lim \in Nat \ {0}
      BY <2>1
    <3>2. QED
      BY <2>1, <3>1
  <2>3. QED
    BY <2>1, <2>2 DEF Counted
<1> HIDE DEF data, i
<1>5. [data EXCEPT ![i] = Counted(@, ok)] \in [0 .. Track - 1 -> Int]
  BY <1>2, <1>3, <1>4
<1>6. Log(ok, sec) = IF diff < 0 THEN health ELSE [data |-> [data EXCEPT ![i] = Counted(@, ok)], i |-> i, iSec |-> sec]
  BY DEF Log, data, i
<1> HIDE DEF diff
<1>7. QED
  BY <1>1, <1>3, <1>5, <1>6 DEF HealthOk, HealthType

\* A call that returns or throws is recorded, and leaves the timers alone.
LEMMA EndsInv ==
    ASSUME ConnectInv, NEW c \in Callers, NEW ok \in BOOLEAN, Ends(c, ok),
           call[c].pc \in {"shaking", "waiting"}, who' = NoCaller, h' = NoAttempt,
           UNCHANGED <<dsn, now, calls, conns>>, call[c].pc = "waiting" => who = NoCaller
    PROVE  ConnectInv'
<1>1. call[c].since \in Nat /\ call[c].since <= now /\ now \in Nat
  BY ConnectAssumption DEF ConnectInv, CallersTyped, CallType
<1>2. HealthOk'
  BY <1>1, LogOk DEF ConnectInv, Ends, Record, HealthOk
<1>3. /\ call' \in [Callers -> CallType] /\ call'[c] = NewCall /\ \A k \in Callers \ {c} : call'[k] = call[k]
      /\ map' = map
  BY NewCallType DEF ConnectInv, CallersTyped, Ends
<1>4. CallersTyped'
  BY <1>1, <1>3, NewCallType DEF ConnectInv, CallersTyped
<1>5. Shakes'
  BY <1>3, NewCallType, ConnectAssumption DEF ConnectInv, Shakes, CallersTyped
<1>6. OneRetrier' /\ TimersInTime'
  BY <1>3, NewCallType DEF ConnectInv, OneRetrier, TimersInTime
<1>7. QED
  BY <1>2, <1>4, <1>5, <1>6 DEF ConnectInv

\* When the timer of a retry is due
LEMMA RetryAfterOk ==
    ASSUME ConnectInv, NEW c \in Callers, now < call[c].till
    PROVE  RetryAfter(c) \in Nat /\ now <= RetryAfter(c) /\ RetryAfter(c) <= call[c].till
<1>1. now \in Nat /\ call[c].till \in Nat /\ dsn.interval \in Nat
  BY ConnectAssumption, DsnFields DEF ConnectInv, CallersTyped, CallType
<1>2. \A x, y \in Nat : Min({x, y}) \in {x, y} /\ Min({x, y}) <= x /\ Min({x, y}) <= y
  <2> SUFFICES ASSUME NEW x \in Nat, NEW y \in Nat
               PROVE  Min({x, y}) \in {x, y} /\ Min({x, y}) <= x /\ Min({x, y}) <= y
    OBVIOUS
  <2>1. \E m \in {x, y} : \A z \in {x, y} : m =< z
    BY (IF x <= y THEN x ELSE y) \in {x, y}
  <2>2. Min({x, y}) \in {x, y} /\ \A z \in {x, y} : Min({x, y}) =< z
    BY <2>1 DEF Min
  <2>3. QED
    BY <2>2
<1>3. QED
  BY <1>1, <1>2 DEF RetryAfter

\* One caller moves to another place in newConn() that is no timer.
LEMMA CallMovesInv ==
    ASSUME ConnectInv, NEW c \in Callers, NEW rec \in CallType,
           call' = [call EXCEPT ![c] = rec], call[c].pc \notin {"retrying", "waiting"},
           rec.pc \notin {"retrying", "waiting"}, rec.since <= now,
           UNCHANGED <<dsn, now, map, health>>,
           calls' \in 0 .. MaxCalls, conns' \in 0 .. MaxConns,
           who' \in Callers \cup {NoCaller},
           Shakes'
    PROVE  ConnectInv'
<1>1. call' \in [Callers -> CallType] /\ call'[c] = rec /\ \A k \in Callers \ {c} : call'[k] = call[k]
  BY DEF ConnectInv, CallersTyped
<1>2. CallersTyped'
  BY <1>1 DEF ConnectInv, CallersTyped
<1>3. OneRetrier' /\ TimersInTime' /\ HealthOk'
  BY <1>1 DEF ConnectInv, OneRetrier, TimersInTime, HealthOk
<1>4. QED
  BY <1>2, <1>3 DEF ConnectInv

\* A new call, and the beginning of its attempt.
LEMMA BeginsInv ==
    ASSUME ConnectInv, NEW c \in Callers,
           NewConn(c) \/ ConnectFails(c, "refused") \/ ConnectFails(c, "fatal") \/ Connected(c)
    PROVE  ConnectInv'
<1>1. /\ call[c] \in CallType /\ call[c].since <= now /\ now \in Nat /\ dsn.timeout \in Nat /\ call \in [Callers -> CallType]
      /\ calls \in 0 .. MaxCalls /\ conns \in 0 .. MaxConns /\ NoCaller \notin Callers /\ dsn \in Dsns
      /\ MaxCalls \in Nat /\ MaxConns \in Nat
  BY ConnectAssumption, DsnFields DEF ConnectInv, CallersTyped
<1>2. CASE NewConn(c)
  <2> DEFINE rec == [NewCall EXCEPT !.pc = "connecting", !.since = now, !.till = now + dsn.timeout]
  <2>1. rec \in CallType /\ rec.pc = "connecting" /\ rec.since = now
    <3>1. \A n, t \in Nat : LET r == [NewCall EXCEPT !.pc = "connecting", !.since = n, !.till = t] IN
              r \in CallType /\ r.pc = "connecting" /\ r.since = n
      BY NewCallType DEF CallType
    <3>2. now + dsn.timeout \in Nat
      BY <1>1
    <3>3. QED
      BY <1>1, <3>1, <3>2
  <2>2. call' = [call EXCEPT ![c] = rec] /\ who = NoCaller /\ who' = who /\ h' = h /\ dsn' = dsn /\ call[c].pc = "no"
    BY <1>2 DEF NewConn
  <2> HIDE DEF rec
  <2>3. Shakes'
    BY <1>1, <2>1, <2>2 DEF ConnectInv, Shakes
  <2>4. calls' \in 0 .. MaxCalls /\ conns' \in 0 .. MaxConns /\ UNCHANGED <<dsn, now, map, health>>
    BY <1>1, <1>2 DEF NewConn
  <2>5. rec.since <= now /\ who' \in Callers \cup {NoCaller}
    BY <1>1, <2>1, <2>2
  <2>6. QED
    BY <2>1, <2>2, <2>3, <2>4, <2>5, CallMovesInv
<1>3. CASE ConnectFails(c, "refused") \/ ConnectFails(c, "fatal") \/ Connected(c)
  <2> DEFINE rec == [call[c] EXCEPT !.pc = "shaking"]
  <2>1. rec \in CallType /\ rec.pc = "shaking" /\ rec.since = call[c].since
    BY <1>1 DEF CallType
  <2>2. call' = [call EXCEPT ![c] = rec] /\ who = NoCaller /\ who' = c /\ dsn' = dsn /\ call[c].pc = "connecting"
    BY <1>3 DEF ConnectFails, Connected
  <2> HIDE DEF rec
  <2>3. AttemptInv(h')
    BY <1>1, <1>3, AcceptedInv DEF ConnectFails, Connected
  <2>4. AttemptInv(h)'
    BY <1>1, <2>2, <2>3, SameDsn DEF HandshakeInv
  <2>5. Shakes'
    BY <1>1, <2>1, <2>2, <2>4 DEF ConnectInv, Shakes
  <2>6. calls' \in 0 .. MaxCalls /\ conns' \in 0 .. MaxConns /\ UNCHANGED <<dsn, now, map, health>>
    BY <1>1, <1>3 DEF ConnectFails, Connected
  <2>7. QED
    BY <1>1, <2>1, <2>2, <2>5, <2>6, CallMovesInv
<1>4. QED
  BY <1>2, <1>3

\* inst() returned or threw: the call is over, or waits for a retry.
LEMMA InstEndsInv ==
    ASSUME ConnectInv, NEW c \in Callers, InstReturns(c) \/ InstThrows(c)
    PROVE  ConnectInv'
<1>1. /\ who = c /\ call[c].pc = "shaking" /\ who' = NoCaller /\ h' = NoAttempt /\ UNCHANGED <<dsn, now, calls, conns>>
      /\ NoCaller \notin Callers /\ map # c /\ call \in [Callers -> CallType] /\ now \in Nat
  <2>1. who = c /\ who' = NoCaller /\ h' = NoAttempt /\ UNCHANGED <<dsn, now, calls, conns>>
    BY DEF InstReturns, InstThrows
  <2>2. call[c].pc = "shaking"
    BY <2>1 DEF ConnectInv, Shakes
  <2>3. map # c
    BY <2>2 DEF ConnectInv, OneRetrier
  <2>4. QED
    BY <2>1, <2>2, <2>3, ConnectAssumption DEF ConnectInv, CallersTyped
<1>2. CASE \E ok \in BOOLEAN : Ends(c, ok)
  BY <1>1, <1>2, EndsInv
<1>3. ASSUME NEW err, ~CannotRetry(c, err), map # NoCaller,
             call' = [call EXCEPT ![c].pc = "waiting", ![c].on = map], UNCHANGED <<map, health, logged>>
      PROVE  ConnectInv'
  <2> DEFINE rec == [call[c] EXCEPT !.pc = "waiting", !.on = map]
  <2>1. call[c].till \in Nat /\ now < call[c].till /\ map \in Callers
    BY <1>1, <1>3 DEF CannotRetry, CallType, ConnectInv, CallersTyped
  <2>2. rec \in CallType /\ rec.pc = "waiting" /\ rec.on = map /\ rec.till = call[c].till /\ rec.since = call[c].since
    BY <1>1, <2>1 DEF CallType
  <2>3. call' = [call EXCEPT ![c] = rec]
    BY <1>1, <1>3
  <2> HIDE DEF rec
  <2>4. call' \in [Callers -> CallType] /\ call'[c] = rec /\ \A k \in Callers \ {c} : call'[k] = call[k]
    BY <1>1, <2>2, <2>3
  <2>5. CallersTyped' /\ Shakes' /\ HealthOk'
    BY <1>1, <1>3, <2>2, <2>4 DEF ConnectInv, CallersTyped, Shakes, HealthOk
  <2>6. OneRetrier' /\ TimersInTime'
    BY <1>1, <1>3, <2>1, <2>2, <2>4 DEF ConnectInv, OneRetrier, TimersInTime
  <2>7. QED
    BY <1>1, <2>5, <2>6 DEF ConnectInv
<1>4. ASSUME NEW err, ~CannotRetry(c, err), map = NoCaller,
             call' = [call EXCEPT ![c].pc = "retrying", ![c].due = RetryAfter(c)], map' = c, UNCHANGED <<health, logged>>
      PROVE  ConnectInv'
  <2> DEFINE rec == [call[c] EXCEPT !.pc = "retrying", !.due = RetryAfter(c)]
  <2>1. call[c].till \in Nat /\ now < call[c].till
    BY <1>1, <1>4 DEF CannotRetry, CallType
  <2>2. RetryAfter(c) \in Nat /\ now <= RetryAfter(c) /\ RetryAfter(c) <= call[c].till
    BY <2>1, RetryAfterOk
  <2>3. /\ rec \in CallType /\ rec.pc = "retrying" /\ rec.due = RetryAfter(c)
        /\ rec.till = call[c].till /\ rec.since = call[c].since
    BY <1>1, <2>2 DEF CallType
  <2>4. call' = [call EXCEPT ![c] = rec]
    BY <1>1, <1>4
  <2> HIDE DEF rec
  <2>5. call' \in [Callers -> CallType] /\ call'[c] = rec /\ \A k \in Callers \ {c} : call'[k] = call[k]
    BY <1>1, <2>3, <2>4
  <2>6. CallersTyped' /\ Shakes' /\ HealthOk'
    BY <1>1, <1>4, <2>3, <2>5 DEF ConnectInv, CallersTyped, Shakes, HealthOk
  <2>7. OneRetrier' /\ TimersInTime'
    BY <1>1, <1>4, <2>2, <2>3, <2>5 DEF ConnectInv, OneRetrier, TimersInTime
  <2>8. QED
    BY <1>1, <2>6, <2>7 DEF ConnectInv
<1>5. QED
  BY <1>2, <1>3, <1>4 DEF InstReturns, InstThrows, Caught

\* The timer of a retry wakes the caller that has it and all that wait for it.
LEMMA RetryTimerInv ==
    ASSUME ConnectInv, NEW c \in Callers, RetryTimer(c)
    PROVE  ConnectInv'
<1> DEFINE W == {k \in Callers : k = c \/ (call[k].pc = "waiting" /\ call[k].on = c)}
           rec(k) == [call[k] EXCEPT !.pc = "connecting", !.due = 0, !.on = NoCaller]
<1>0. call' = [k \in Callers |-> IF k \in W THEN rec(k) ELSE call[k]]
  BY DEF RetryTimer
<1>1. call[c].pc = "retrying" /\ who = NoCaller /\ map' = NoCaller /\ UNCHANGED <<dsn, h, now, who, health, calls, conns>>
  BY DEF RetryTimer
<1>2. /\ call \in [Callers -> CallType] /\ NoCaller \notin Callers /\ map = c
  BY <1>1, ConnectAssumption DEF ConnectInv, CallersTyped, OneRetrier
<1>3. \A k \in Callers : rec(k) \in CallType /\ rec(k).pc = "connecting" /\ rec(k).since = call[k].since
  BY <1>2 DEF CallType
<1>4. \A k \in Callers : call[k].pc = "retrying" \/ call[k].pc = "waiting" => k \in W
  BY <1>2 DEF ConnectInv, OneRetrier
<1>5. \A k \in Callers : k \in W => call[k].pc \in {"retrying", "waiting"}
  BY <1>1
<1> HIDE DEF rec, W
<1>6. /\ call' \in [Callers -> CallType]
      /\ \A k \in Callers : /\ k \in W => call'[k].pc = "connecting" /\ call'[k].since = call[k].since
                            /\ k \notin W => call'[k] = call[k]
  BY <1>0, <1>2, <1>3
<1>7. CallersTyped' /\ HealthOk'
  BY <1>1, <1>6 DEF ConnectInv, CallersTyped, HealthOk
<1>8. Shakes'
  BY <1>1, <1>2, <1>5, <1>6 DEF ConnectInv, Shakes
<1>9. OneRetrier' /\ TimersInTime'
  BY <1>1, <1>2, <1>4, <1>6 DEF OneRetrier, TimersInTime
<1>10. QED
  BY <1>1, <1>7, <1>8, <1>9 DEF ConnectInv

\* Every step keeps the invariant.
LEMMA ConnectNext == ConnectInv /\ [Next]_vars => ConnectInv'
<1> SUFFICES ASSUME ConnectInv, [Next]_vars
             PROVE  ConnectInv'
  OBVIOUS
<1>1. ASSUME NEW c \in Callers, Deadline(c)
      PROVE  ConnectInv'
  <2>1. call[c].pc = "waiting" /\ who = NoCaller /\ Ends(c, FALSE) /\ UNCHANGED <<dsn, h, now, who, calls, conns>>
    BY <1>1 DEF Deadline
  <2>2. h = NoAttempt
    BY <2>1 DEF ConnectInv, Shakes
  <2>3. QED
    BY <2>1, <2>2, EndsInv
<1>2. CASE Tick
  <2>1. now' = now + 1 /\ now < MaxTime /\ ~TimerDue /\ UNCHANGED <<dsn, h, call, who, map, health, calls, conns>>
    BY <1>2 DEF Tick
  <2>2. now \in Nat /\ MaxTime \in Nat /\ call \in [Callers -> CallType]
    BY ConnectAssumption DEF ConnectInv, CallersTyped
  <2>3. \A c \in Callers : call[c].since \in Nat /\ call[c].due \in Nat /\ call[c].till \in Nat
    BY <2>2 DEF CallType
  <2>4. CallersTyped' /\ HealthOk'
    BY <2>1, <2>2, <2>3 DEF ConnectInv, CallersTyped, HealthOk, HealthType
  <2>5. Shakes' /\ OneRetrier'
    BY <2>1, AttemptKept DEF ConnectInv, Shakes, OneRetrier
  <2>6. TimersInTime'
    BY <2>1, <2>2, <2>3 DEF ConnectInv, TimersInTime, TimerDue
  <2>7. QED
    BY <2>1, <2>4, <2>5, <2>6 DEF ConnectInv
<1>3. CASE UNCHANGED vars
  BY <1>3, AttemptKept DEF vars, ConnectInv, CallersTyped, Shakes, OneRetrier, TimersInTime, HealthOk
<1>4. QED
  BY <1>1, <1>2, <1>3, HandshakeSteps, BeginsInv, InstEndsInv, RetryTimerInv DEF Next, Others, Quiet

\* At first nobody calls.
LEMMA ConnectInit == Init => ConnectInv
<1> SUFFICES ASSUME Init
             PROVE  ConnectInv
  OBVIOUS
<1>1. CallersTyped
  BY NewCallType, ConnectAssumption DEF Init, CallersTyped
<1>2. Shakes
  BY NewCallType, ConnectAssumption DEF Init, Shakes
<1>3. OneRetrier /\ TimersInTime
  BY NewCallType, ConnectAssumption DEF Init, OneRetrier, TimersInTime
<1>4. HealthOk
  <2>1. Track \in Nat \ {0} /\ now = 0
    BY ConnectAssumption DEF Init
  <2>2. health = [data |-> [i \in 0 .. Track - 1 |-> 0], i |-> 0, iSec |-> 0 - Track - 1]
    BY DEF Init
  <2>3. QED
    BY <2>1, <2>2 DEF HealthOk, HealthType
<1>5. QED
  BY <1>1, <1>2, <1>3, <1>4 DEF Init, ConnectInv

\* The invariant of newConn() and of the attempts it makes.
LEMMA ConnectInvariant == Spec => []ConnectInv
BY ConnectInit, ConnectNext, PTL DEF Spec

-----------------------------------------------------------------------------
(* Theorems.                                                               *)

(* Type correctness of inst(), newConn() and HealthStatus, for any number of *)
(* callers of getProtocol().                                               *)
THEOREM ConnectTypeCorrect == Spec => []TypeOK
<1>1. ASSUME ConnectInv
      PROVE  TypeOK
  <2>1. NoAttempt.pc = "no" /\ NoAttempt.caps = {} /\ NoAttempt.pstate = "Initial" /\ NoAttempt.closer = "tcp"
        /\ NoAttempt.err = "no" /\ NoAttempt.in = <<>> /\ NoAttempt.out = "no"
    BY DEF NoAttempt
  <2>2. HandshakeTypeOK
    <3>1. CASE who = NoCaller
      <4>1. Len(<<>>) = 0
        OBVIOUS
      <4>2. h = NoAttempt /\ dsn \in Dsns
        BY <1>1, <3>1 DEF ConnectInv, Shakes
      <4>3. QED
        BY <2>1, <4>1, <4>2 DEF HandshakeTypeOK
    <3>2. CASE who # NoCaller
      <4>1. AttemptInv(h) /\ dsn \in Dsns
        BY <1>1, <3>2 DEF ConnectInv, Shakes
      <4>2. h \in Attempt /\ Turn(h) /\ Closes(h)
        BY <4>1 DEF AttemptInv
      <4>3. \A b \in Inbox : Len(b) <= 2
        <5>1. \A b \in Greetings : Len(b) <= 2
          <6>1. \A x : Len(<<x>>) <= 2
            OBVIOUS
          <6> SUFFICES ASSUME NEW b \in Greetings
                       PROVE  Len(b) <= 2
            OBVIOUS
          <6>2. PICK plugin \in PluginNames, offer \in Offers :
                   b = <<[kind |-> "greeting", what |-> plugin, offer |-> offer]>>
            BY DEF Greetings
          <6>3. QED
            BY <6>1, <6>2
        <5>2. \A kind, what : Len(P(kind, what)) <= 2
          BY DEF P
        <5>3. Len(<<>>) <= 2 /\ Len(FastAndOk) <= 2
          BY DEF FastAndOk
        <5>4. \A b \in {P("switch", plugin) : plugin \in PluginNames} : Len(b) <= 2
          BY <5>2
        <5>5. \A b \in {<<>>, FastAndOk, P("ok", ""), P("err", ""), P("disconnect", ""), P("nextFactor", ""),
                        P("more", "full"), P("more", "key"), P("more", "salt"), P("more", "badSalt")} : Len(b) <= 2
          <6> DEFINE Short(b) == Len(b) <= 2
          <6>1. \A kind, what : Short(P(kind, what))
            BY <5>2
          <6>2. Short(<<>>) /\ Short(FastAndOk)
            BY <5>3
          <6> HIDE DEF Short
          <6>3. \A b \in {<<>>, FastAndOk, P("ok", ""), P("err", ""), P("disconnect", ""), P("nextFactor", ""),
                          P("more", "full"), P("more", "key"), P("more", "salt"), P("more", "badSalt")} : Short(b)
            BY <6>1, <6>2, Zenon
          <6>4. QED
            BY <6>3 DEF Short
        <5>6. QED
          BY <5>1, <5>4, <5>5, Zenon DEF Inbox
      <4>4. h.out # "no" => h.in = <<>>
        BY <4>2 DEF Turn, GreetingTurn, TlsTurn, TokenTurn, AnswerTurn, InitTurn, Rests
      <4>5. QED
        BY <4>1, <4>2, <4>3, <4>4 DEF HandshakeTypeOK, Attempt, PcSet, AuthPcs, Closes
    <3>3. QED
      BY <3>1, <3>2
  <2>3. who = NoCaller <=> h.pc = "no"
    BY <1>1, <2>1 DEF ConnectInv, Shakes, AttemptInv, Turn, GreetingTurn, TlsTurn, TokenTurn, AnswerTurn,
       InitTurn, Rests, AuthPcs
  <2>4. \A c \in Callers : /\ call[c].pc \in {"no", "connecting", "shaking", "retrying", "waiting"}
                           /\ call[c].pc = "shaking" <=> who = c
    BY <1>1 DEF ConnectInv, CallersTyped, CallType, Shakes
  <2>5. health.i \in 0 .. Track - 1 /\ health.iSec <= now /\ DOMAIN health.data = 0 .. Track - 1
    BY <1>1 DEF ConnectInv, HealthOk, HealthType
  <2>6. now \in 0 .. MaxTime /\ calls \in 0 .. MaxCalls /\ conns \in 0 .. MaxConns
    BY <1>1 DEF ConnectInv, CallersTyped
  <2>7. QED
    BY <2>2, <2>3, <2>4, <2>5, <2>6 DEF TypeOK
<1>2. QED
  BY <1>1, ConnectInvariant, PTL

(* Of the callers whose attempts failed one has the timer of the retry, it  *)
(* is the one in #curRetryingPromises, and all the others wait for it: for  *)
(* any number of callers.                                                  *)
THEOREM ConnectOneRetrier == Spec => []OneRetrier
<1>1. ConnectInv => OneRetrier
  BY DEF ConnectInv
<1>2. QED
  BY <1>1, ConnectInvariant, PTL

(* newConn() never waits beyond connectTill, and gives up with "the server *)
(* is not there" no sooner than that, for any timeouts and intervals.      *)
THEOREM ConnectDeadlineKept == Spec => DeadlineKept
<1>1. ConnectInv => \A c \in Callers : call[c].pc \in {"retrying", "waiting"} => now <= call[c].till
  <2> SUFFICES ASSUME ConnectInv, NEW c \in Callers, call[c].pc \in {"retrying", "waiting"}
               PROVE  now <= call[c].till
    OBVIOUS
  <2>1. now \in Nat /\ call[c].due \in Nat /\ call[c].till \in Nat
    BY ConnectAssumption DEF ConnectInv, CallersTyped, CallType
  <2>2. QED
    BY <2>1 DEF ConnectInv, TimersInTime
<1>2. ConnectInv /\ [Next]_vars =>
        [ \A c \in Callers :
             (call[c].pc # "no" /\ call'[c].pc = "no" /\ h.pc # "done") =>
                dsn.interval = 0 \/ now >= call[c].till \/ h.err = "fatal" ]_vars
  <2> SUFFICES ASSUME ConnectInv, Next, NEW c \in Callers,
                      call[c].pc # "no", call'[c].pc = "no", h.pc # "done"
               PROVE  dsn.interval = 0 \/ now >= call[c].till \/ h.err = "fatal"
    OBVIOUS
  <2>1. call \in [Callers -> CallType] /\ UNCHANGED call => FALSE
    OBVIOUS
  <2>2. call \in [Callers -> CallType]
    BY DEF ConnectInv, CallersTyped
  <2>3. ASSUME NEW k \in Callers, NEW rec, rec.pc # "no", call' = [call EXCEPT ![k] = rec]
        PROVE  FALSE
    BY <2>2, <2>3
  <2>4. ASSUME NEW k \in Callers, NewConn(k) \/ ConnectFails(k, "refused") \/ ConnectFails(k, "fatal") \/ Connected(k)
        PROVE  FALSE
    <3>1. CASE NewConn(k)
      <4> DEFINE rec == [NewCall EXCEPT !.pc = "connecting", !.since = now, !.till = now + dsn.timeout]
      <4>1. rec.pc = "connecting"
        BY NewCallType DEF CallType
      <4>2. QED
        BY <2>3, <3>1, <4>1 DEF NewConn
    <3>2. CASE ConnectFails(k, "refused") \/ ConnectFails(k, "fatal") \/ Connected(k)
      <4> DEFINE rec == [call[k] EXCEPT !.pc = "shaking"]
      <4>1. rec.pc = "shaking"
        BY <2>2 DEF CallType
      <4>2. call' = [call EXCEPT ![k] = rec]
        BY <3>2 DEF ConnectFails, Connected
      <4> HIDE DEF rec
      <4>3. QED
        BY <2>3, <4>1, <4>2
    <3>3. QED
      BY <2>4, <3>1, <3>2
  <2>5. ASSUME NEW k \in Callers, InstThrows(k)
        PROVE  dsn.interval = 0 \/ now >= call[c].till \/ h.err = "fatal"
    <3>1. CASE CannotRetry(k, h.err) /\ Ends(k, FALSE)
      <4>1. k = c
        BY <2>2, <3>1 DEF Ends
      <4>2. QED
        BY <3>1, <4>1 DEF CannotRetry
    <3>2. CASE \E rec \in CallType : rec.pc # "no" /\ call' = [call EXCEPT ![k] = rec]
      BY <2>3, <3>2
    <3>3. CASE map # NoCaller /\ call' = [call EXCEPT ![k].pc = "waiting", ![k].on = map]
      <4>1. call'[k].pc = "waiting" /\ \A j \in Callers \ {k} : call'[j] = call[j]
        BY <2>2, <3>3 DEF CallType
      <4>2. QED
        BY <4>1
    <3>4. CASE call' = [call EXCEPT ![k].pc = "retrying", ![k].due = RetryAfter(k)]
      <4>1. call'[k].pc = "retrying" /\ \A j \in Callers \ {k} : call'[j] = call[j]
        BY <2>2, <3>4 DEF CallType
      <4>2. QED
        BY <4>1
    <3>5. QED
      BY <2>5, <3>1, <3>3, <3>4 DEF InstThrows, Caught
  <2>6. ASSUME NEW k \in Callers, RetryTimer(k)
        PROVE  FALSE
    <3>1. \A j \in Callers : [call[j] EXCEPT !.pc = "connecting", !.due = 0, !.on = NoCaller].pc = "connecting"
      BY <2>2 DEF CallType
    <3>2. call'[c].pc \in {"connecting", call[c].pc}
      BY <2>6, <3>1 DEF RetryTimer
    <3>3. QED
      BY <3>2
  <2>7. ASSUME NEW k \in Callers, Deadline(k)
        PROVE  now >= call[c].till
    <3>1. k = c
      BY <2>2, <2>7 DEF Deadline, Ends
    <3>2. QED
      BY <2>7, <3>1 DEF Deadline
  <2>8. ~UNCHANGED call
    OBVIOUS
  <2>9. \A k \in Callers : ~InstReturns(k)
    BY DEF InstReturns
  <2>10. QED
    BY <2>4, <2>5, <2>6, <2>7, <2>8, <2>9 DEF Next, Others, Tick
<1>3. QED
  BY <1>1, <1>2, ConnectInvariant, PTL DEF Spec, DeadlineKept

(* The clear text of the password and the request of the server's key are  *)
(* sent under their conditions only, for any DSN, and whatever plugins the *)
(* server names and switches to.                                           *)
THEOREM HandshakePasswordGuarded == Spec => []PasswordGuarded
<1>1. ConnectInv => PasswordGuarded
  <2> SUFFICES ASSUME ConnectInv
               PROVE  PasswordGuarded
    OBVIOUS
  <2>1. CASE who = NoCaller
    <3>1. NoAttempt.out = "no"
      BY DEF NoAttempt
    <3>2. QED
      BY <2>1, <3>1 DEF ConnectInv, Shakes, PasswordGuarded
  <2>2. CASE who # NoCaller
    <3>1. Guarded(h) /\ Turn(h)
      BY <2>2 DEF ConnectInv, Shakes, AttemptInv
    <3>2. h.out = "clear" => h.pc \in AuthPcs
      BY <3>1 DEF Turn, GreetingTurn, TlsTurn, TokenTurn, AnswerTurn, InitTurn, Rests
    <3>3. QED
      BY <3>1, <3>2 DEF Guarded, PasswordGuarded, IsSecure, Trusted
  <2>3. QED
    BY <2>1, <2>2
<1>2. QED
  BY <1>1, ConnectInvariant, PTL

(* inst() returns only a connection that the server let in, with no packet  *)
(* unread and the compression agreed on, and whatever throws, #closer holds *)
(* the socket. It needs a server that asks for no further factor in the    *)
(* middle of a plugin's exchange.                                          *)
THEOREM HandshakeReady ==
    ASSUME "factorAfterMore" \notin Allows
    PROVE  Spec => []ReadyMeansAccepted
<1>1. ConnectInv => ReadyMeansAccepted
  <2> SUFFICES ASSUME ConnectInv
               PROVE  ReadyMeansAccepted
    OBVIOUS
  <2>1. CASE who = NoCaller
    <3>1. NoAttempt.pc = "no"
      BY DEF NoAttempt
    <3>2. QED
      BY <2>1, <3>1 DEF ConnectInv, Shakes, ReadyMeansAccepted
  <2>2. CASE who # NoCaller
    <3>1. Turn(h) /\ Agree(h) /\ Closes(h)
      BY <2>2 DEF ConnectInv, Shakes, AttemptInv
    <3>2. h.pc = "done" => Rests(h)
      BY <3>1 DEF Turn, GreetingTurn, TlsTurn, TokenTurn, AnswerTurn, InitTurn, AuthPcs
    <3>3. QED
      BY <3>1, <3>2 DEF Rests, Ready, Agree, Closes, ReadyMeansAccepted
  <2>3. QED
    BY <2>1, <2>2
<1>2. QED
  BY <1>1, ConnectInvariant, PTL

=============================================================================
