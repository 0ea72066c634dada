--------------------------- MODULE MCKfsaExchange ---------------------------
(* One status of every class the client tells apart, and the borders between. *)
EXTENDS KfsaExchange

MCStatuses == {200, 204, 299, 300, 400, 401, 403, 404, 409, 422, 429, 499, 500, 503, 599}
=============================================================================
