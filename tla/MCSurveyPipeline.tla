-------------------------- MODULE MCSurveyPipeline --------------------------
EXTENDS SurveyPipeline

CONSTANTS e1, a1, scheduler, r1, r2

\* Two requests that finish the first response, one for the second.
MCRequests == {<<r1, 1>>, <<r1, 2>>, <<r2, 1>>}
=============================================================================
