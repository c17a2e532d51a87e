------------------------------ MODULE SetupData ------------------------------
(***************************************************************************)
(* The catalogue main.ts installs at every boot: one definition for each of *)
(* the set-up functions, with the integration app it creates, the client it *)
(* registers for that app and whether it stores a token for that client.    *)
(* Addresses, headers, scopes and secrets are left out: the properties tell  *)
(* the entries apart by their names, types and grants.                      *)
(***************************************************************************)
EXTENDS Sequences

App(name, type, grant) == [name |-> name, type |-> type, grant |-> grant]

Client(integration, name, type) ==
  [integration |-> integration, name |-> name, type |-> type]

\* A set-up function without a client, and an app without a grant type.
NoClient == Client("none", "none", "none")

Default == "none"

OnlyApp(app) == [app |-> app, client |-> NoClient, token |-> FALSE]

WithClient(app, client) == [app |-> app, client |-> client, token |-> FALSE]

WithToken(app, client) == [app |-> app, client |-> client, token |-> TRUE]

Zoho == WithToken(App("Zoho", "OAUTH", Default),
  Client("Zoho", "LambdasZoho", "OAUTH"))

AWSSignature == WithClient(App("AWS Signature", "AWSSignature", Default),
  Client("AWSSignature", "LambdasAWSSignature", "AWSSignature"))

MicrosoftAzure == OnlyApp(App("MicrosoftAzure", "OAUTH", Default))

Cin7 == WithClient(App("Cin7", "BASIC", Default),
  Client("Cin7", "LambdasCin7", "BASIC"))

Xero == WithToken(App("Xero", "OAUTH", Default),
  Client("Xero", "LambdasXero", "OAUTH"))

MYOB == OnlyApp(App("MYOB", "OAUTH", Default))

Slack == WithClient(App("Slack", "OAUTH", Default),
  Client("Slack", "LambdasSlack", "OAUTH"))

Shopify == OnlyApp(App("Shopify", "OAUTH", Default))

Stripe == WithClient(App("Stripe", "BEARER", Default),
  Client("Stripe", "LambdasStripe", "BASIC"))

Github == OnlyApp(App("Github", "OAUTH", Default))

Dropbox == OnlyApp(App("Dropbox", "OAUTH", Default))

GoogleDrive == OnlyApp(App("GoogleDrive", "OAUTH", Default))

Adobesign == OnlyApp(App("Adobesign", "OAUTH", Default))

Docusign == OnlyApp(App("Docusign", "OAUTH", Default))

Imgur == OnlyApp(App("Imgur", "OAUTH", Default))

Onedrive == OnlyApp(App("One Drive", "OAUTH", Default))

SalesForce == OnlyApp(App("SalesForce", "OAUTH", Default))

Amadeus == OnlyApp(App("Amadeus", "OAUTH", "CLIENT_CREDENTIALS"))

Adyen == WithClient(App("Adyen", "BASIC", Default),
  Client("Adyen", "LambdasAdyen", "BASIC"))

AerisWeather == OnlyApp(App("AerisWeather", "API_KEY", Default))

Airtable == OnlyApp(App("Airtable", "OAUTH", "AUTHORIZATION_CODE_WITH_PKCE"))

BigCommerce == OnlyApp(App("BigCommerce", "OAUTH", Default))

Bitly == OnlyApp(App("Bitly", "OAUTH", "AUTHORIZATION_CODE"))

Facebook == OnlyApp(App("Facebook", "OAUTH", "CLIENT_CREDENTIALS"))

Firebase == OnlyApp(App("Firebase", "OAUTH", Default))

MailChimp == WithClient(App("MailChimp", "BASIC", Default),
  Client("Adyen", "LambdasMailChimp", "BASIC"))

Mailgun == WithClient(App("Mailgun", "BASIC", Default),
  Client("Mailgun", "LambdasMailgun", "BASIC"))

MicrosoftDynamics == OnlyApp(App("MicrosoftDynamics", "OAUTH", Default))

Notion == OnlyApp(App("Notion", "OAUTH", "AUTHORIZATION_CODE"))

Pdf == WithClient(App("Pdf", "BEARER", Default),
  Client("Pdf", "LambdasPdf", "BASIC"))

Sendgrid == WithClient(App("Sendgrid", "BASIC", Default),
  Client("Sendgrid", "LambdasSendgrid", "BASIC"))

Sendle == WithClient(App("Sendle", "BASIC", Default),
  Client("Sendle", "LambdasSendle", "BASIC"))

Short == WithClient(App("Short", "BASIC", Default),
  Client("Short", "LambdasShort", "BASIC"))

Trello == OnlyApp(App("Trello", "OAUTH", Default))

Twilio == WithClient(App("Twilio", "BASIC", Default),
  Client("Twilio", "LambdasTwilio", "BASIC"))

TypeForm == OnlyApp(App("TypeForm", "OAUTH", Default))

YHFinance == WithClient(App("YH Finance", "BASIC", Default),
  Client("YhFinance", "LambdasFinance", "BASIC"))

\* The order of bootstrap; Docuware is commented out there.
Catalogue ==
  << Zoho, AWSSignature, MicrosoftAzure, Cin7, Xero, MYOB, Slack, Shopify,
     Stripe, Github, Dropbox, GoogleDrive, Adobesign, Docusign, Imgur,
     Onedrive, SalesForce, Amadeus, Adyen, AerisWeather, Airtable,
     BigCommerce, Bitly, Facebook, Firebase, MailChimp, Mailgun,
     MicrosoftDynamics, Notion, Pdf, Sendgrid, Sendle, Short, Trello,
     Twilio, TypeForm, YHFinance >>
==============================================================================
