-------------------------------- MODULE Login -------------------------------
(* The tracker's own login, the throttle before it and the signed cookie    *)
(* after it (web/routes_auth.py, web/sessions.py), and whom a request is    *)
(* taken for (web/auth.py). A session is kept nowhere but in the cookie;    *)
(* the failures are kept nowhere but in memory. A browser has an address of *)
(* its own.                                                                 *)
EXTENDS Clock, Integers, Sequences, FiniteSetsExt

CONSTANTS
    User,
    Nobody,
    Secret,         \* keys that sign session cookies
    NoSecret,
    Browser,
    Configs,        \* the configurations a start may find
    MaxFailures,    \* _MAX_FAILURES
    Window,         \* _WINDOW_SECONDS
    Session,        \* session_hours
    MaxStarts       \* bound: restarts of the tracker

VARIABLES
    config,         \* of the running process
    failures,       \* address |-> the times of its failures that still count
    cookie,         \* browser |-> its session cookie
    reached,        \* history: the request that just reached its handler
    tried,          \* history: address |-> passwords refused since it was let in
    entered,        \* history: browser |-> its last password that was accepted
    starts

siteVars  == <<config, failures, cookie, reached, tried, entered, starts>>
loginVars == <<now, siteVars>>

(* auth.users and session_secret, admin_users and fee_users, is proxy_secret *)
(* set, and EMISSION_DEV_USER.                                              *)
Config == [users : SUBSET User, session_secret : Secret \cup {NoSecret},
           admins : SUBSET User, payers : SUBSET User,
           proxy_secret : BOOLEAN, dev_user : User \cup {Nobody}]

ASSUME LoginAssumption == /\ Configs \subseteq Config
                          /\ Nobody \notin User /\ NoSecret \notin Secret
                          /\ MaxFailures \in Nat /\ Window \in Nat /\ Session \in Nat

NoCookie  == [user |-> Nobody, expiry |-> 0, key |-> NoSecret]
NoRequest == [user |-> Nobody, browser |-> Nobody, kind |-> "none"]
NoEntry   == [user |-> Nobody, at |-> 0]

LoginInit == /\ ClockInit
             /\ config \in Configs
             /\ failures = [b \in Browser |-> <<>>]
             /\ cookie = [b \in Browser |-> NoCookie]
             /\ reached = NoRequest
             /\ tried = [b \in Browser |-> <<>>]
             /\ entered = [b \in Browser |-> NoEntry]
             /\ starts = 0

---------------------------------------------------------------------------
(* LoginThrottle                                                            *)

(* Mutant: the clock's cutoff is taken from the newest failure.             *)
PrunedAtFailure(b) ==
    IF failures[b] # <<>> /\ failures[b][Len(failures[b])] < now - Window
    THEN <<>> ELSE failures[b]

(* _prune: from the left, as long as what is there is too old.              *)
Pruned(b)  == LET kept == {i \in DOMAIN failures[b] : failures[b][i] >= now - Window}
              IN  IF kept = {} THEN <<>> ELSE SubSeq(failures[b], Min(kept), Len(failures[b]))
Blocked(b) == Len(Pruned(b)) >= MaxFailures

---------------------------------------------------------------------------
(* login_submit: nothing is awaited once the body is read                   *)

NoneReached == reached' = NoRequest

own_login == config.users # {} /\ config.session_secret # NoSecret

Throttled(b) == /\ own_login
                /\ Blocked(b)
                /\ failures' = [failures EXCEPT ![b] = Pruned(b)]
                /\ NoneReached
                /\ UNCHANGED <<now, config, cookie, tried, entered, starts>>

(* An unknown name or a wrong password.                                     *)
LoginFails(b) == /\ own_login
                 /\ ~Blocked(b)
                 /\ failures' = [failures EXCEPT ![b] = Append(Pruned(b), now)]
                 /\ tried' = [tried EXCEPT ![b] = Append(@, now)]
                 /\ NoneReached
                 /\ UNCHANGED <<now, config, cookie, entered, starts>>

LoginSucceeds(b, u) ==
    /\ own_login
    /\ u \in config.users
    /\ ~Blocked(b)
    /\ failures' = [failures EXCEPT ![b] = <<>>]
    /\ tried' = [tried EXCEPT ![b] = <<>>]
    /\ cookie' = [cookie EXCEPT ![b] = [user |-> u, expiry |-> now + Session,
                                      key |-> config.session_secret]]
    /\ entered' = [entered EXCEPT ![b] = [user |-> u, at |-> now]]
    /\ NoneReached
    /\ UNCHANGED <<now, config, starts>>

(* The answer deletes the browser's cookie, whoever asks.                   *)
Logout(b) == /\ cookie' = [cookie EXCEPT ![b] = NoCookie]
             /\ entered' = [entered EXCEPT ![b] = NoEntry]
             /\ NoneReached
             /\ UNCHANGED <<now, config, failures, tried, starts>>

---------------------------------------------------------------------------
(* Whom a request is taken for                                              *)

ReadCookie(c) == IF c.key = config.session_secret /\ now < c.expiry THEN c.user ELSE Nobody

(* Mutant: a name the config no longer knows is still let in.               *)
session_user_of_anyone(c) == ReadCookie(c)

session_user(c) == IF own_login /\ ReadCookie(c) \in config.users THEN ReadCookie(c) ELSE Nobody

(* `forwarded` is X-Remote-User, `proxied` whether the proxy's secret came  *)
(* with it.                                                                 *)
current_user(c, forwarded, proxied) ==
    CASE session_user(c) # Nobody                             -> session_user(c)
      [] session_user(c) = Nobody /\ config.dev_user # Nobody
             /\ ~config.proxy_secret                          -> config.dev_user
      [] session_user(c) = Nobody /\ (config.dev_user = Nobody \/ config.proxy_secret)
             /\ ~own_login /\ (config.proxy_secret => proxied) -> forwarded
      [] OTHER                                                -> Nobody

is_admin(u)    == u # Nobody /\ u \in config.admins
can_pay_fee(u) == u # Nobody /\ (is_admin(u) \/ u \in config.payers)

(* The gate (require_login), then the dependency of the endpoint.           *)
Allowed(kind, u) == /\ own_login => u # Nobody
                    /\ kind = "fee"   => can_pay_fee(u)
                    /\ kind = "admin" => is_admin(u)

(* A request from another site is refused unless it only reads.             *)
Serve(b, kind, forwarded, proxied, same_origin) ==
    LET u == current_user(cookie[b], forwarded, proxied)
    IN  /\ Allowed(kind, u)
        /\ kind = "page" \/ same_origin \/ ~own_login
        /\ reached' = [user |-> u, browser |-> b, kind |-> kind]
        /\ UNCHANGED <<now, config, failures, cookie, tried, entered, starts>>

---------------------------------------------------------------------------
(* The throttle is new, the sessions are not; the config may be another.    *)
TrackerStarts == /\ starts < MaxStarts
                 /\ starts' = starts + 1
                 /\ config' \in Configs
                 /\ failures' = [b \in Browser |-> <<>>]
                 /\ tried' = [b \in Browser |-> <<>>]
                 /\ NoneReached
                 /\ UNCHANGED <<now, cookie, entered>>

LoginTick == /\ TimePasses
             /\ NoneReached
             /\ UNCHANGED <<config, failures, cookie, tried, entered, starts>>

LoginNext ==
    \/ \E b \in Browser :
           \/ Throttled(b) \/ LoginFails(b) \/ Logout(b)
           \/ \E u \in User : LoginSucceeds(b, u)
           \/ \E kind \in {"page", "fee", "admin"}, f \in User \cup {Nobody},
                 proxied, same_origin \in BOOLEAN : Serve(b, kind, f, proxied, same_origin)
    \/ TrackerStarts
    \/ LoginTick

LoginSpec == LoginInit /\ [][LoginNext]_loginVars

---------------------------------------------------------------------------
(* Properties                                                               *)

Within(ts, from, to) == {i \in DOMAIN ts : ts[i] \in from .. to}

(* In no window of that length are more passwords of an address looked at   *)
(* than the limit, and an address waits exactly while it has used them up:  *)
(* asking again while it waits makes it wait no longer ("Ten failures from  *)
(* one address inside five minutes and that address waits").                *)
ThrottleHolds ==
    \A b \in Browser :
        /\ \A t \in 0 .. now : Cardinality(Within(tried[b], t, t + Window)) <= MaxFailures
        /\ Blocked(b) <=> Cardinality(Within(tried[b], now - Window, now)) >= MaxFailures

(* Where the tracker has its own login, a request reaches its handler only  *)
(* for someone who entered a password in that browser, less than a session  *)
(* ago, has not logged out since, and is still known to the configuration,  *)
(* in the role that the request needs, whatever restarts came between       *)
(* ("removing someone from auth.users has to log them out").                *)
ReachedLoggedIn ==
    reached # NoRequest /\ own_login /\ (config.dev_user = Nobody \/ config.proxy_secret) =>
        LET e == entered[reached.browser]
        IN  /\ reached.user = e.user
            /\ now - e.at < Session
            /\ e.user \in config.users
            /\ reached.kind = "fee"   => e.user \in config.admins \cup config.payers
            /\ reached.kind = "admin" => e.user \in config.admins
=============================================================================
