-------------------------------- MODULE Api --------------------------------
(***************************************************************************)
(* The helpers for HTTP APIs: extras/api/server.go.                        *)
(*                                                                         *)
(* A handler's outcome is a record: whether it panicked, the status it     *)
(* set, its error (the empty sequence, or the status it carries, 0 for an  *)
(* error without one), whether it wants a redirect, and whether its data   *)
(* can be encoded.  Logging and traces are left out.                       *)
(***************************************************************************)
EXTENDS Integers, Sequences, SequencesExt

CONSTANTS LocalOrigins,   \* origins that begin with http://localhost:
          IntOf,          \* the texts cast.ToInt64E takes, with their value
          FloatOf         \* the texts cast.ToFloat64E takes

ASSUME ApiAssumption == \A t \in DOMAIN IntOf : IntOf[t] \in Int

NoError == <<>>

----------------------------------------------------------------------------
(* Headers.  vary is a list of names.                                      *)

AllowOrigin(headers, origin) ==
    [allow |-> origin,
     vary  |-> IF headers.vary = <<"*">> THEN headers.vary ELSE Append(headers.vary, "Origin")]

\* conf has ResponseHeaders, CorsDomains and CorsAllowLocalhost.  The loop over the domains sets
\* the headers again for each that matches.
CorsHeaders(conf, origin) ==
    LET after[n \in 0..Len(conf.domains)] ==
            IF n = 0 THEN conf.headers
            ELSE IF conf.domains[n] = origin THEN AllowOrigin(after[n - 1], origin) ELSE after[n - 1]
    IN  after[Len(conf.domains)]

Headers(conf, origin) ==
    LET cors == CorsHeaders(conf, origin)
    IN  IF conf.localhost /\ origin \in LocalOrigins THEN AllowOrigin(cors, origin) ELSE cors

----------------------------------------------------------------------------
(* ServeHTTP.                                                              *)

\* A panic becomes an error, but panic(nil) is not seen: the response is empty.
callHandlerSafely(o) ==
    IF o.panics THEN [o EXCEPT !.status = 0, !.redirect = FALSE, !.encodes = TRUE] ELSE o

StatusOf(rsp) ==
    IF rsp.status # 0 THEN rsp.status
    ELSE IF rsp.error # NoError THEN IF rsp.error[1] # 0 THEN rsp.error[1] ELSE 500
    ELSE IF rsp.redirect THEN 302 ELSE 200

\* The answer: what was sent, with which status, and what its body says.
Answer(kind, status, success, reported) ==
    [kind |-> kind, status |-> status, success |-> success, reported |-> reported]

\* Data that cannot be encoded is answered with the same status and the error of the encoder.
ServeHTTP(method, o) ==
    LET rsp     == callHandlerSafely(o)
        status  == StatusOf(rsp)
        success == status < 400
    IN  IF method = "OPTIONS" THEN Answer("preflight", 200, TRUE, FALSE)
        ELSE IF status >= 300 /\ status < 400 THEN Answer("redirect", status, TRUE, FALSE)
        ELSE IF rsp.encodes THEN Answer("json", status, success, rsp.error # NoError)
        ELSE Answer("json", status, FALSE, TRUE)

----------------------------------------------------------------------------
(* FormValues.  A field has a name, a kind and, for integers, its size:    *)
(* how many values its type has, 2^8 for int8.  form gives the parameters  *)
(* that are there, trimmed.                                                *)

truthyValues == {"1", "yes", "y", "true"}

falseyValues == {"0", "no", "n", "false"}

IsTruthy(value) == value \in truthyValues

IsBoolString(value) == value \in truthyValues \cup falseyValues

\* int8(castVal) and the like keep the low bits.
Cut(n, field) ==
    LET low == n % field.size
    IN  IF field.kind = "int" /\ 2 * low >= field.size THEN low - field.size ELSE low

Readable(field, value) ==
    CASE field.kind = "string" -> TRUE
      [] field.kind = "int"    -> value = "" \/ value \in DOMAIN IntOf
      [] field.kind = "uint"   -> value = "" \/ (value \in DOMAIN IntOf /\ IntOf[value] >= 0)
      [] field.kind = "bool"   -> value = "" \/ IsBoolString(value)
      [] field.kind = "float"  -> value = "" \/ value \in FloatOf
      [] OTHER                 -> FALSE

Converted(field, value) ==
    CASE field.kind \in {"int", "uint"} -> <<Cut(IntOf[value], field)>>
      [] field.kind = "bool"            -> <<IsTruthy(value)>>
      [] OTHER                          -> <<value>>

\* As a slip: an empty value does not count as seen.
TakeFieldEmptyUnseen(form, st, field) ==
    IF ~st.ok \/ field.name \notin DOMAIN form THEN st
    ELSE IF ~Readable(field, form[field.name]) THEN [st EXCEPT !.ok = FALSE]
    ELSE IF field.kind # "string" /\ form[field.name] = "" THEN st
    ELSE [st EXCEPT !.seen = @ \cup {field.name},
                    !.params = [@ EXCEPT ![field.name] = Converted(field, form[field.name])]]

\* params are the values so far, seen the parameters that belong to a field, ok whether to go on.
\* An empty value leaves the field as it is, unless it is a string.
TakeField(form, st, field) ==
    LET value == form[field.name]
    IN  IF ~st.ok \/ field.name \notin DOMAIN form THEN st
        ELSE IF ~Readable(field, value) THEN [st EXCEPT !.ok = FALSE]
        ELSE [st EXCEPT !.seen = @ \cup {field.name},
                        !.params = IF field.kind # "string" /\ value = "" THEN @
                                   ELSE [@ EXCEPT ![field.name] = Converted(field, value)]]

NamesOf(fields) == {fields[i].name : i \in DOMAIN fields}

TakeFields(fields, form) ==
    LET after[n \in 0..Len(fields)] ==
            IF n = 0 THEN [ok |-> TRUE, seen |-> {}, params |-> [x \in NamesOf(fields) |-> <<>>]]
            ELSE TakeField(form, after[n - 1], fields[n])
    IN  after[Len(fields)]

\* valid is what the validation rules say of the params.
FormValues(fields, form, ignored, valid) ==
    LET st == TakeFields(fields, form)
    IN  [ok     |-> st.ok /\ DOMAIN form \subseteq st.seen \cup ignored /\ valid,
         params |-> st.params]

----------------------------------------------------------------------------
(* What the code promises.                                                 *)

\* Another origin may read the answer only if it is configured, and then caches are told that the
\* answer depends on the origin.
OriginAllowed(conf, origin) ==
    LET h == Headers(conf, origin)
    IN  h.allow # conf.headers.allow =>
            /\ h.allow = origin
            /\ origin \in ToSet(conf.domains) \/ (conf.localhost /\ origin \in LocalOrigins)
            /\ h.vary = <<"*">> \/ "Origin" \in ToSet(h.vary)

\* An outcome whose status the handler did not choose.
Unchosen(o) == o.panics \/ o.status = 0

\* An error that carries no status, or one of a failure.
IsFailure(error) == error # NoError /\ (error[1] = 0 \/ error[1] >= 400)

\* A handler that fails, by an error or by a panic that brings one, is answered as a failure with
\* its error, unless it or the error chose a status that is none; one that neither fails nor panics
\* is not answered as a failure, unless it chose so or its data cannot be encoded.  What panic(nil)
\* should be answered is left open: recover cannot tell it from no panic.
FailureTold(method, o) ==
    LET a == ServeHTTP(method, o)
    IN  /\ (a.kind = "preflight") = (method = "OPTIONS")
        /\ method # "OPTIONS" /\ Unchosen(o) =>
              /\ IsFailure(o.error) => a.kind = "json" /\ a.status >= 400 /\ ~a.success /\ a.reported
              /\ o.error = NoError /\ ~o.panics => a.status < 400 /\ (a.success \/ ~o.encodes)

\* The parameters that are given and cannot be read, and the fields that get a value.
Unreadable(fields, form) ==
    {i \in DOMAIN fields : fields[i].name \in DOMAIN form /\ ~Readable(fields[i], form[fields[i].name])}

IsGiven(fields, form, i) ==
    /\ fields[i].name \in DOMAIN form
    /\ form[fields[i].name] # "" \/ fields[i].kind = "string"

\* A number that its field has room for; other values always have room.
InWidth(field, value) ==
    LET x == IntOf[value]
    IN  /\ field.kind = "int" => -field.size <= 2 * x /\ 2 * x < field.size
        /\ field.kind = "uint" => x < field.size

AsGiven(field, value) ==
    CASE field.kind \in {"int", "uint"} -> <<IntOf[value]>>
      [] field.kind = "bool"            -> <<value \in truthyValues>>
      [] OTHER                          -> <<value>>

\* FormValues succeeds exactly if every parameter that is given belongs to a field, can be read as
\* that field's kind, and the rules hold.  Then a field that was given has the value it was given,
\* if it has room for it, and any other is as it was.  What becomes of numbers that do not fit, and
\* of the fields of a form that is refused, is left open.
FormTaken(fields, form, ignored, valid) ==
    LET r == FormValues(fields, form, ignored, valid)
    IN  /\ r.ok = (/\ Unreadable(fields, form) = {}
                   /\ DOMAIN form \subseteq NamesOf(fields) \cup ignored
                   /\ valid)
        /\ r.ok => \A i \in DOMAIN fields :
              LET value == form[fields[i].name]
                  param == r.params[fields[i].name]
              IN  IF IsGiven(fields, form, i) THEN InWidth(fields[i], value) => param = AsGiven(fields[i], value)
                  ELSE param = <<>>

============================================================================
