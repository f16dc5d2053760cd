----------------------------- MODULE MCEnvelope -----------------------------
EXTENDS EnvelopeProperties

MCAnswers == {200, 202, 400, 401, 429, 500, 503}
MCCodes == {404, 405, 500}
MCRefusals == {400, 426}
=============================================================================
