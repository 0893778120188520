--------------------------- MODULE MCMigrations ---------------------------
(* Instances of Migrations for TLC.                                        *)
EXTENDS Migrations

MCUrl(scheme, encoded, params) == [scheme |-> scheme, encoded |-> encoded, params |-> params]
MCParam(key, text, escaped) == [key |-> key, text |-> text, escaped |-> escaped]

\* A local URL; a provider's, with parameters that asyncpg does not take; a word
\* that is escaped without need; an escaped password; ?host=/cloudsql/...; a
\* parameter of libpq only; another driver.
MCUrls ==
    { MCUrl("postgresql+asyncpg", FALSE, {}),
      MCUrl("postgres", FALSE, {MCParam("sslmode", "word", FALSE),
                                MCParam("channel_binding", "word", FALSE)}),
      MCUrl("postgresql", FALSE, {MCParam("ssl", "word", TRUE)}),
      MCUrl("postgresql", TRUE, {MCParam("sslmode", "blank", FALSE)}),
      MCUrl("postgresql", FALSE, {MCParam("option", "reserved", FALSE)}),
      MCUrl("postgres", FALSE, {MCParam("foreign", "word", FALSE)}),
      MCUrl("other", FALSE, {}) }

=============================================================================
