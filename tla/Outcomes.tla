------------------------------ MODULE Outcomes ------------------------------
(***************************************************************************)
(* What a call of a repository returns: a value or one of the errors of    *)
(* shared/pkg/errors, and the class of the HTTP answer made from it.  The  *)
(* services share this package, and so do the modules about them.          *)
(***************************************************************************)
EXTENDS FiniteSets

Ok(v) == [err |-> "nil", val |-> v]
Fail(e) == [err |-> e, val |-> "nothing"]
Succeeds(r) == r.err = "nil"

\* A query for one row: pgx.ErrNoRows when there is none, under the name the
\* repository gives it.
OneRow(rows, err) == IF rows = {} THEN Fail(err) ELSE Ok(CHOOSE row \in rows : TRUE)

\* The codes of postgres that MapDBErrors tells apart.
MapDBErrors(cause) ==
  CASE cause = "no rows"     -> "ErrNotFound"
    [] cause = "unique"      -> "ErrAlreadyExists"
    [] cause = "foreign key" -> "ErrNotFound"
    [] cause = "check"       -> "ErrInvalidInput"
    [] OTHER                 -> "error"

\* The status of the answer.
ParseError(e) ==
  CASE e = "nil" -> 200
    [] e \in {"ErrNotFound", "ErrUserNotFound"} -> 404
    [] e \in {"ErrIncorrectPassword", "ErrInvalidPassword", "ErrUnauthorized"} -> 401
    [] e \in {"ErrSamePassword", "ErrPasswordMismatch", "ErrInvalidInput",
              "ErrOTPExpired", "ErrOTPInvalid"} -> 400
    [] e \in {"ErrEmailAlreadyTaken", "ErrTransactionLocked"} -> 409
    [] e \in {"ErrOTPTimout"} -> 429
    [] e \in {"ErrForbidden", "ErrEmailNotVerified", "ROLE_PROTECTED"} -> 403
    [] OTHER -> 500

\* Deletes the rows of a table that satisfy a test, or changes the row of an id.
RowsOf(table, id) == {row \in table : row.id = id}
Without(table, id) == {row \in table : row.id # id}
=============================================================================
