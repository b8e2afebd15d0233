\* One reconnection after RabbitMQ has restarted.
SPECIFICATION FairSpec
CONSTANTS
    Uploads = {t1, t2, t3}
    Boot = Boot
    NoOne = NoOne
    MaxFailures = 2
PROPERTY
    ReconnectReturns
