---- MODULE MCBaseRequest ----
\* Two requests on one router: an invoke, which close() counts, and a query.
EXTENDS BaseRequest, TLC

CONSTANTS invoke, query, router

MCRouterOf == [r \in Req |-> router]
====
