\* One streaming request over three accounts, with room for a retry and a failover; the requests of
\* the conversation that are not followed answer at any time.
SPECIFICATION FairSpec
CONSTANTS
    NoAccount = NoAccount
    Accounts = {a1, a2, a3}
    Requests = {r1}
    Streaming = {r1}
    Conversation <- OneConversation
    MaxPerAccount = 2
    MaxPerRequest = 4
INVARIANT AnswerFromOneAccount
PROPERTIES
    
    RequestsEnd
